---- MODULE Spec2Model ----
(***************************************************************************)
(* State-machine model of the brain-down workspace state layer.            *)
(*                                                                         *)
(* Vault store (src/brain-down/src/lib/state/vaultStore.ts) together with  *)
(* the validation helpers of $lib/io/vaultConfig (src/unnamed/part_004).   *)
(*                                                                         *)
(* Strings are modelled as sequences of one-character strings so that      *)
(* trim, toLowerCase and the path normalisation are computed, not assumed. *)
(* Every async store method is split at its awaits: the synchronous block  *)
(* up to an await is one action, the external effect of a call that has    *)
(* one (the config write, the config read) is an action of its own, and    *)
(* the code after the await is the next action.                            *)
(***************************************************************************)
EXTENDS Integers, Sequences, FiniteSets, TLC

\* ---------------------------------------------------------------------------
\* Bounds of the model
\* ---------------------------------------------------------------------------

\* Number of vault ids that ever exist (ids in the initial config plus ids
\* generateId hands out): caps the otherwise unbounded stream of UUIDs.
MaxIds == 2

\* Number of operations started in one behaviour of the interleaved
\* specification ConcSpec.
MaxOps == 3

\* Slots for operations in flight at the same time (ConcSpec).
Procs == {1, 2}

NULL == "null"

\* ---------------------------------------------------------------------------
\* Strings
\* ---------------------------------------------------------------------------

Whitespace == {" ", "\t"}

Separators == {"/", "\\"}

Letters == {"a", "b", "c", "A", "B", "C"}

Digits == {"0", "1", "2"}

\* String.prototype.toLowerCase on one character of the model's alphabet
LowerChar(c) ==
  CASE c = "A" -> "a"
    [] c = "B" -> "b"
    [] c = "C" -> "c"
    [] OTHER -> c

toLowerCase(s) == [i \in 1..Len(s) |-> LowerChar(s[i])]

RECURSIVE trimStart(_)
trimStart(s) ==
  IF s # <<>> /\ Head(s) \in Whitespace THEN trimStart(Tail(s)) ELSE s

RECURSIVE trimEnd(_)
trimEnd(s) ==
  IF s # <<>> /\ s[Len(s)] \in Whitespace
  THEN trimEnd(SubSeq(s, 1, Len(s) - 1))
  ELSE s

\* String.prototype.trim
trim(s) == trimEnd(trimStart(s))

\* ---------------------------------------------------------------------------
\* Validation rules ($lib/io/vaultConfig)
\* ---------------------------------------------------------------------------

VAULT_NAME_MIN_LENGTH == 1

VAULT_NAME_MAX_LENGTH == 50

\* /^[a-zA-Z0-9\s\-_]+$/
VAULT_NAME_PATTERN(s) ==
  /\ Len(s) >= 1
  /\ \A i \in 1..Len(s) :
       s[i] \in Letters \cup Digits \cup Whitespace \cup {"-", "_"}

validateVaultName(name, existingVaults, excludeId) ==
  LET trimmed == trim(name)
      nameLower == toLowerCase(trimmed)
      \* existingVaults.some(...)
      isDuplicate == \E k \in 1..Len(existingVaults) :
                       /\ toLowerCase(existingVaults[k].name) = nameLower
                       /\ existingVaults[k].id # excludeId
  IN  IF trimmed # name
      THEN [valid |-> FALSE, error |-> "whitespace"]
      ELSE IF Len(trimmed) < VAULT_NAME_MIN_LENGTH
      THEN [valid |-> FALSE, error |-> "required"]
      ELSE IF Len(trimmed) > VAULT_NAME_MAX_LENGTH
      THEN [valid |-> FALSE, error |-> "too_long"]
      ELSE IF ~VAULT_NAME_PATTERN(trimmed)
      THEN [valid |-> FALSE, error |-> "characters"]
      ELSE IF isDuplicate
      THEN [valid |-> FALSE, error |-> "duplicate_name"]
      ELSE [valid |-> TRUE, error |-> NULL]

RECURSIVE stripTrailingSeparators(_)
stripTrailingSeparators(s) ==
  IF s # <<>> /\ s[Len(s)] \in Separators
  THEN stripTrailingSeparators(SubSeq(s, 1, Len(s) - 1))
  ELSE s

\* Mutant: the path keeps the case of its letters.
normalizePathCaseSensitive(path) ==
  LET stripped == stripTrailingSeparators(path)
  IN  [i \in 1..Len(stripped) |->
         IF stripped[i] = "\\" THEN "/" ELSE stripped[i]]

normalizePath(path) ==
  LET stripped == stripTrailingSeparators(path)
      unified == [i \in 1..Len(stripped) |->
                    IF stripped[i] = "\\" THEN "/" ELSE stripped[i]]
  IN  toLowerCase(unified)

\* Mutant: the paths are compared as written, without normalisation.
isPathDuplicateRaw(path, existingVaults, excludeId) ==
  \E k \in 1..Len(existingVaults) :
    /\ existingVaults[k].path = path
    /\ existingVaults[k].id # excludeId

isPathDuplicate(path, existingVaults, excludeId) ==
  LET normalizedPath == normalizePath(path)
  IN  \E k \in 1..Len(existingVaults) :
        /\ normalizePath(existingVaults[k].path) = normalizedPath
        /\ existingVaults[k].id # excludeId

\* ---------------------------------------------------------------------------
\* Inputs and environment
\* ---------------------------------------------------------------------------

\* activeVaultId: null, excludeId: undefined
NoId == 0

Ids == 1..MaxIds

\* Names callers pass: valid ones, a case variant of another, and one with
\* leading whitespace.
NameInputs == { <<"a">>, <<"A">>, <<"b">>, <<" ", "a">> }

\* Paths callers pass: "/a" and "/A/" have the same normal form.
PathInputs == { <<"/", "a">>, <<"/", "A", "/">>, <<"/", "b">> }

Vault(id, name, path) == [id |-> id, name |-> name, path |-> path]

\* Configs found on disk at startup (loadConfig): valid vault lists.
InitConfigs ==
  { <<>>,
    << Vault(1, <<"a">>, <<"/", "a">>) >>,
    << Vault(1, <<"a">>, <<"/", "a">>), Vault(2, <<"b">>, <<"/", "b">>) >> }

VARIABLES
  vaults,         \* VaultState.vaults
  activeVaultId,  \* VaultState.activeVaultId
  files,          \* VaultState.files
  isLoading,      \* VaultState.isLoading
  error,          \* VaultState.error
  persisted,      \* the vault list of the config file on disk
  nextId,         \* the next identifier generateId hands out
  frames,         \* the store operations in flight, one per slot
  started         \* operations started so far (ConcSpec only)

store == <<vaults, activeVaultId, files, isLoading, error>>

\* The document session store (mapStore) and the last call made on it
VARIABLES
  file,           \* MapState.file
  filePath,       \* MapState.filePath
  isDirty,        \* MapState.isDirty
  mapCall         \* the last mapStore call: method, argument, state before

mapVars == <<file, filePath, isDirty, mapCall>>

\* The vault store, the disk and the vault operations in flight
vaultVars == <<vaults, activeVaultId, files, isLoading, error, persisted,
               nextId, frames, started>>

\* The selection and tool store (uiStore) and the last call made on it
VARIABLES
  selectedNodeIds,  \* UIState.selectedNodeIds
  selectedEdgeIds,  \* UIState.selectedEdgeIds
  selectedTool,     \* UIState.selectedTool
  editingNodeId,    \* UIState.editingNodeId
  contextMenu,      \* UIState.contextMenu
  modal,            \* UIState.modal
  uiCall            \* the last uiStore call: method, argument, state before

uiVars == <<selectedNodeIds, selectedEdgeIds, selectedTool, editingNodeId,
            contextMenu, modal, uiCall>>

\* The notification queue (toastStore), its timers and the last call made
\* on it
VARIABLES
  toasts,         \* ToastState.toasts
  idCounter,      \* let idCounter of createToastStore
  timers,         \* ids whose setTimeout callback has not run yet
  toastCall       \* the last toastStore call or timer callback

toastVars == <<toasts, idCounter, timers, toastCall>>

\* The list of recently opened files of the vault store, which no vault
\* operation reads or writes
VARIABLES
  recentFiles,    \* VaultState.recentFiles
  recentCall,     \* the last addRecentFile or reset: argument, list before
  recency,        \* every path added so far, most recently added first
  reopened        \* how many of the adds were of a path added before

recentVars == <<recentFiles, recentCall, recency, reopened>>

\* The editor page: its save of the open document
VARIABLES
  written,        \* what the last completed writeMapFile put on disk
  saving          \* the save in progress: its position and what it captured

editorVars == <<written, saving>>

\* The validation helpers of the vault config module are functions of
\* their arguments; the last call of one of them
VARIABLES
  pureCall        \* function, arguments and result

pureVars == <<pureCall>>

\* What the vault operations leave alone: recentFiles, the record of the
\* helper calls and the other stores
otherStores ==
  <<recentVars, pureVars, mapVars, editorVars, uiVars, toastVars>>

vars ==
  <<vaultVars, recentVars, pureVars, mapVars, editorVars, uiVars, toastVars>>

\* No helper was called yet
PureInit == pureCall = [fn |-> "none"]

\* initialState.recentFiles
RecentInit ==
  /\ recentFiles = <<>>
  /\ recentCall = [op |-> "none", arg |-> 0, pre |-> <<>>]
  /\ recency = <<>>
  /\ reopened = 0

\* file: null
NoFile == [null |-> TRUE]

\* What mapStore held when a method was called
MapSnapshot == [file |-> file, filePath |-> filePath, isDirty |-> isDirty]

\* const initialState: MapState
MapInit ==
  /\ file = NoFile
  /\ filePath = NULL
  /\ isDirty = FALSE
  /\ mapCall = [op |-> "none", arg |-> NULL, pre |-> MapSnapshot]

\* No save of the editor is in progress, or the save holds the captured
\* document no longer
NotSaving == [pc |-> "idle", file |-> NoFile, filePath |-> NULL, saves |-> 0]

\* The editor page before its first save
EditorInit == written = NoFile /\ saving = NotSaving

\* contextMenu: null
NoContextMenu == [null |-> TRUE]

\* modal: null
NoModal == [null |-> TRUE]

\* What uiStore held when a method was called
UiSnapshot ==
  [selectedNodeIds |-> selectedNodeIds, selectedEdgeIds |-> selectedEdgeIds,
   selectedTool |-> selectedTool, editingNodeId |-> editingNodeId,
   contextMenu |-> contextMenu, modal |-> modal]

\* const initialState: UIState
uiInitialState ==
  [selectedNodeIds |-> {}, selectedEdgeIds |-> {}, selectedTool |-> "select",
   editingNodeId |-> NoId, contextMenu |-> NoContextMenu, modal |-> NoModal]

UiInit ==
  /\ selectedNodeIds = uiInitialState.selectedNodeIds
  /\ selectedEdgeIds = uiInitialState.selectedEdgeIds
  /\ selectedTool = uiInitialState.selectedTool
  /\ editingNodeId = uiInitialState.editingNodeId
  /\ contextMenu = uiInitialState.contextMenu
  /\ modal = uiInitialState.modal
  /\ uiCall = [op |-> "none", arg |-> NULL, pre |-> uiInitialState]

\* writable<ToastState>({ toasts: [] }); let idCounter = 0
ToastInit ==
  /\ toasts = <<>>
  /\ idCounter = 0
  /\ timers = {}
  /\ toastCall = [op |-> "none", arg |-> NULL, pre |-> <<>>]

\* Mutant: the identifier handed out last is handed out again.
generateIdRepeated == IF nextId > 1 THEN nextId - 1 ELSE nextId

\* crypto.randomUUID(): an identifier never handed out before
generateId == nextId

\* check_vault_accessible: the answers the file system may give for `path`.
\* A directory can appear, vanish or change its permissions at any time, so
\* either answer is possible at every call.
checkVaultAccessible(path) == BOOLEAN

\* get_vault_files: the listing of the directory at `path`; every directory
\* of the model holds one document.
getVaultFiles(path) == << [name |-> "map", path |-> path] >>

\* Array.prototype.findIndex (1-based, 0 for "not found")
findIndex(seq, id) ==
  IF \E i \in 1..Len(seq) : seq[i].id = id
  THEN CHOOSE i \in 1..Len(seq) :
         seq[i].id = id /\ \A j \in 1..(i - 1) : seq[j].id # id
  ELSE 0

\* Mutant: the first entry is dropped, whatever its id.
filterOutHead(seq, id) == Tail(seq)

\* Array.prototype.filter(v => v.id !== id)
RECURSIVE filterOut(_, _)
filterOut(seq, id) ==
  IF seq = <<>> THEN <<>>
  ELSE IF Head(seq).id # id
       THEN <<Head(seq)>> \o filterOut(Tail(seq), id)
       ELSE filterOut(Tail(seq), id)

\* Mutant: the second assignment of the exchange is lost.
swapOverwrite(seq, i, j) == [seq EXCEPT ![i] = seq[j]]

\* [a[i], a[j]] = [a[j], a[i]]
swap(seq, i, j) == [seq EXCEPT ![i] = seq[j], ![j] = seq[i]]

\* ---------------------------------------------------------------------------
\* Operations in flight
\* ---------------------------------------------------------------------------

\* What the store and the disk held when an operation was called.
Snapshot ==
  [vaults |-> vaults, activeVaultId |-> activeVaultId, files |-> files,
   persisted |-> persisted]

NoSnapshot ==
  [vaults |-> <<>>, activeVaultId |-> NoId, files |-> <<>>,
   persisted |-> <<>>]

NoRet ==
  [usedFallback |-> FALSE, hasFallbackName |-> FALSE,
   fallbackVaultName |-> <<>>, id |-> NoId]

IdleFrame ==
  [op |-> "none", pc |-> "idle",
   id |-> NoId, name |-> <<>>, path |-> <<>>,   \* arguments
   vaults |-> <<>>,         \* state.vaults / newVaults / config.vaults
   active |-> NoId,         \* state.activeVaultId as read by get()
   i |-> 0,                 \* loop index of the activation loop
   probes |-> <<>>,         \* answers of the accessibility checks so far
   probing |-> {},          \* indices whose check is in flight
   saves |-> 0,             \* saveConfig invocations
   awaits |-> 0,            \* external calls awaited so far
   deletedMeanwhile |-> FALSE,  \* a deleteVault of .id completed meanwhile
   outcome |-> "none", ret |-> NoRet, pre |-> NoSnapshot]

NewFrame(op, id, name, path) ==
  [IdleFrame EXCEPT !.op = op, !.pc = "run", !.id = id, !.name = name,
                    !.path = path, !.vaults = vaults,
                    !.active = activeVaultId, !.pre = Snapshot]

Free(p) == frames[p].pc \in {"idle", "done"}

At(p, op, pc) == frames[p].op = op /\ frames[p].pc = pc

\* The frame of slot p becomes f; a call also forgets the finished frames
\* of the other slots.
Begin(p, f) ==
  frames' = [q \in Procs |->
               IF q = p THEN f
               ELSE IF frames[q].pc = "done" THEN IdleFrame ELSE frames[q]]

Resume(p, f) == frames' = [frames EXCEPT ![p] = f]

\* The operation ends: it throws (outcome names the error) or returns.
Finish(f, outcome) == [f EXCEPT !.pc = "done", !.outcome = outcome]

\* await of an external call: the operation is suspended at pc
Await(f, pc) == [f EXCEPT !.pc = pc, !.awaits = @ + 1]

\* await persistConfig(newVaults): saveConfig is invoked
CallSave(f, newVaults) ==
  [Await(f, "save") EXCEPT !.vaults = newVaults, !.saves = @ + 1]

\* Mutant: persistConfig is invoked before the check throws.
RejectAfterSave(f, outcome) == Finish(CallSave(f, f.vaults), outcome)

\* throw new Error(...) of a failed check in the synchronous block of
\* addVault, renameVault and updateVaultPath
Reject(f, outcome) == Finish(f, outcome)

\* Mutant: the check of the next entry is issued together with this one.
CallCheckEager(f, i) ==
  [Await(f, "check") EXCEPT !.i = i, !.probing = @ \cup {i, i + 1}]

\* await checkVaultAccessible(...) for loop index i (0 outside the loops)
CallCheck(f, i) == [Await(f, "check") EXCEPT !.i = i, !.probing = @ \cup {i}]

\* The check issued for loop index f.i, on `path`, answered
Probed(f, path, isAccessible) ==
  [f EXCEPT !.probes = Append(@, [i |-> f.i, path |-> path,
                                  ok |-> isAccessible]),
            !.probing = @ \ {f.i}]

\* Ghost: deleteVault(id) completed; the operations suspended on the same
\* id are marked.
Deleted(p, f) ==
  frames' = [q \in Procs |->
               IF q = p THEN f
               ELSE IF ~Free(q) /\ frames[q].id = f.id
                    THEN [frames[q] EXCEPT !.deletedMeanwhile = TRUE]
                    ELSE frames[q]]

Init ==
  /\ vaults = <<>>
  /\ activeVaultId = NoId
  /\ files = <<>>
  /\ isLoading = FALSE
  /\ error = NULL
  /\ persisted \in InitConfigs
  /\ nextId = Len(persisted) + 1
  /\ frames = [p \in Procs |-> IdleFrame]
  /\ started = 0
  /\ RecentInit
  /\ PureInit
  /\ MapInit
  /\ EditorInit
  /\ UiInit
  /\ ToastInit

\* ---------------------------------------------------------------------------
\* External collaborators
\* ---------------------------------------------------------------------------

\* save_config writes the full list to disk
SaveConfigWrites(p) ==
  /\ frames[p].pc = "save"
  /\ persisted' = frames[p].vaults
  /\ Resume(p, [frames[p] EXCEPT !.pc = "saved"])
  /\ UNCHANGED <<store, nextId, started>>

\* Mutant: the list was published to the store before the save was awaited.
SaveConfigFailsPublished(p) ==
  /\ frames[p].pc = "save"
  /\ vaults' = frames[p].vaults
  /\ Resume(p, Finish(frames[p], "persist_error"))
  /\ UNCHANGED <<activeVaultId, files, isLoading, error, persisted, nextId,
                 started>>

\* save_config rejects: persistConfig throws out of the operation, which
\* none of the store methods catches
SaveConfigFails(p) ==
  /\ frames[p].pc = "save"
  /\ Resume(p, Finish(frames[p], "persist_error"))
  /\ UNCHANGED <<store, persisted, nextId, started>>

\* load_config reads the list from disk
LoadConfigReads(p) ==
  /\ frames[p].pc = "load"
  /\ Resume(p, [frames[p] EXCEPT !.pc = "loaded", !.vaults = persisted])
  /\ UNCHANGED <<store, persisted, nextId, started>>

\* load_config rejects
LoadConfigFails(p) ==
  /\ frames[p].pc = "load"
  /\ Resume(p, [frames[p] EXCEPT !.pc = "loadfail"])
  /\ UNCHANGED <<store, persisted, nextId, started>>

\* ---------------------------------------------------------------------------
\* initialize
\* ---------------------------------------------------------------------------

\* lines 70-73: isLoading, error cleared, loadConfig called
initialize(p) ==
  /\ Free(p)
  /\ isLoading' = TRUE
  /\ error' = NULL
  /\ Begin(p, [NewFrame("initialize", NoId, <<>>, <<>>) EXCEPT !.pc = "load", !.awaits = 1])
  /\ UNCHANGED <<vaults, activeVaultId, files, persisted, nextId>>

\* lines 75-90: the config arrived; the list is published and the first
\* accessibility check is issued
initializeLoaded(p) ==
  /\ At(p, "initialize", "loaded")
  /\ LET f == frames[p]
         config == f.vaults
     IN  /\ vaults' = config
         /\ IF Len(config) = 0
            THEN /\ isLoading' = FALSE
                 /\ Resume(p, Finish(f, "ok"))
            ELSE /\ isLoading' = isLoading
                 /\ Resume(p, CallCheck(f, 1))
  /\ UNCHANGED <<activeVaultId, files, error, persisted, nextId,
                 started>>

\* lines 122-129: catch
initializeCatch(p) ==
  /\ At(p, "initialize", "loadfail")
  /\ isLoading' = FALSE
  /\ error' = "Failed to initialize"
  /\ Resume(p, Finish(frames[p], "caught"))
  /\ UNCHANGED <<vaults, activeVaultId, files, persisted, nextId,
                 started>>

\* lines 88-121: one answer of checkVaultAccessible inside the loop
initializeChecked(p, isAccessible) ==
  /\ At(p, "initialize", "check")
  /\ isAccessible \in checkVaultAccessible(frames[p].vaults[frames[p].i].path)
  /\ LET f == frames[p]
         i == f.i
         config == f.vaults
         g == Probed(f, f.vaults[f.i].path, isAccessible)
     IN  IF isAccessible
         THEN \* activatedVault = vault; break; getVaultFiles is called
              /\ Resume(p, Await(g, "list"))
              /\ UNCHANGED <<isLoading, error>>
         ELSE IF i < Len(config)
         THEN /\ Resume(p, CallCheck(g, i + 1))
              /\ UNCHANGED <<isLoading, error>>
         ELSE \* all vaults failed
              /\ isLoading' = FALSE
              /\ error' = "All configured vaults are inaccessible"
              /\ Resume(p, Finish(g, "ok"))
  /\ UNCHANGED <<vaults, activeVaultId, files, persisted, nextId,
                 started>>

\* Mutant: the 0-based comparison kept on the 1-based index.
usedFallbackOffByOne(i) == i > 0

\* line 94: usedFallback = i > 0, for the 1-based loop index of the model
usedFallbackAt(i) == i > 1

\* lines 101-112: the listing of the activated vault arrived
initializeListed(p) ==
  /\ At(p, "initialize", "list")
  /\ LET f == frames[p]
         activatedVault == f.vaults[f.i]
         usedFallback == usedFallbackAt(f.i)
     IN  /\ activeVaultId' = activatedVault.id
         /\ files' = getVaultFiles(activatedVault.path)
         /\ isLoading' = FALSE
         /\ Resume(p, [Finish(f, "ok") EXCEPT !.ret =
              [usedFallback |-> usedFallback,
               hasFallbackName |-> usedFallback,
               fallbackVaultName |->
                 IF usedFallback THEN activatedVault.name ELSE <<>>,
               id |-> activatedVault.id]])
  /\ UNCHANGED <<vaults, error, persisted, nextId, started>>

\* ---------------------------------------------------------------------------
\* addVault, renameVault, updateVaultPath
\* ---------------------------------------------------------------------------

\* lines 143-166: validation, the new entry, saveConfig called
addVault(p, name, path) ==
  /\ Free(p)
  /\ LET f == NewFrame("addVault", NoId, name, path)
         nameValidation == validateVaultName(name, vaults, NoId)
     IN  IF ~nameValidation.valid
         THEN Begin(p, Reject(f, "invalid_name")) /\ UNCHANGED nextId
         ELSE IF isPathDuplicate(path, vaults, NoId)
         THEN Begin(p, Reject(f, "duplicate_path")) /\ UNCHANGED nextId
         ELSE /\ nextId <= MaxIds
              /\ LET newVault == Vault(generateId, trim(name), path)
                     newVaults == Append(vaults, newVault)
                 IN  Begin(p, [CallSave(f, newVaults) EXCEPT
                                 !.id = newVault.id,
                                 !.ret = [NoRet EXCEPT !.id = newVault.id]])
              /\ nextId' = nextId + 1
  /\ UNCHANGED <<store, persisted>>

\* Mutant: the new entry is appended to the list the store holds when the
\* save completed, not to the list read at the call.
addVaultSavedAppends(p) ==
  /\ At(p, "addVault", "saved")
  /\ vaults' = Append(vaults, frames[p].vaults[Len(frames[p].vaults)])
  /\ Resume(p, Finish(frames[p], "ok"))
  /\ UNCHANGED <<activeVaultId, files, isLoading, error, persisted,
                 nextId, started>>

\* line 167-169
addVaultSaved(p) ==
  /\ At(p, "addVault", "saved")
  /\ vaults' = frames[p].vaults
  /\ Resume(p, Finish(frames[p], "ok"))
  /\ UNCHANGED <<activeVaultId, files, isLoading, error, persisted,
                 nextId, started>>

\* Mutant: no vault is excluded from the uniqueness check.
renameExcludeNothing(id) == NoId

\* line 186: the renamed vault is excluded from the uniqueness check
renameExcludeId(id) == id

\* lines 178-196
renameVault(p, id, newName) ==
  /\ Free(p)
  /\ LET f == NewFrame("renameVault", id, newName, <<>>)
         vaultIndex == findIndex(vaults, id)
         nameValidation == validateVaultName(newName, vaults, renameExcludeId(id))
         newVaults == [k \in 1..Len(vaults) |->
                         IF vaults[k].id = id
                         THEN [vaults[k] EXCEPT !.name = trim(newName)]
                         ELSE vaults[k]]
     IN  IF vaultIndex = 0
         THEN Begin(p, Reject(f, "not_found"))
         ELSE IF ~nameValidation.valid
         THEN Begin(p, Reject(f, "invalid_name"))
         ELSE Begin(p, CallSave(f, newVaults))
  /\ UNCHANGED <<store, persisted, nextId>>

\* line 197
renameVaultSaved(p) ==
  /\ At(p, "renameVault", "saved")
  /\ vaults' = frames[p].vaults
  /\ Resume(p, Finish(frames[p], "ok"))
  /\ UNCHANGED <<activeVaultId, files, isLoading, error, persisted,
                 nextId, started>>

\* lines 206-219: checks, then checkVaultAccessible(newPath) is called
updateVaultPath(p, id, newPath) ==
  /\ Free(p)
  /\ LET f == NewFrame("updateVaultPath", id, <<>>, newPath)
         vaultIndex == findIndex(vaults, id)
     IN  IF vaultIndex = 0
         THEN Begin(p, Reject(f, "not_found"))
         ELSE IF isPathDuplicate(newPath, vaults, id)
         THEN Begin(p, Reject(f, "duplicate_path"))
         ELSE Begin(p, CallCheck(f, 0))
  /\ UNCHANGED <<store, persisted, nextId>>

\* lines 220-229: the answer arrived; the new list is built from the
\* state read at the call and saveConfig is called
updateVaultPathChecked(p, isAccessible) ==
  /\ At(p, "updateVaultPath", "check")
  /\ isAccessible \in checkVaultAccessible(frames[p].path)
  /\ LET f == Probed(frames[p], frames[p].path, isAccessible)
         newVaults == [k \in 1..Len(f.vaults) |->
                         IF f.vaults[k].id = f.id
                         THEN [f.vaults[k] EXCEPT !.path = f.path]
                         ELSE f.vaults[k]]
     IN  IF ~isAccessible
         THEN Resume(p, Finish(f, "inaccessible"))
         ELSE Resume(p, CallSave(f, newVaults))
  /\ UNCHANGED <<store, persisted, nextId, started>>

\* Mutant: the files are requested whichever vault is active.
isTargetActiveAlways(f) == TRUE

\* line 233: state.activeVaultId === id, on the state read at the call
isTargetActive(f) == f.active = f.id

\* lines 230-235: the list is published; the active vault's files are
\* requested again
updateVaultPathSaved(p) ==
  /\ At(p, "updateVaultPath", "saved")
  /\ LET f == frames[p]
     IN  /\ vaults' = f.vaults
         /\ IF isTargetActive(f)
            THEN Resume(p, Await(f, "list"))
            ELSE Resume(p, Finish(f, "ok"))
  /\ UNCHANGED <<activeVaultId, files, isLoading, error, persisted,
                 nextId, started>>

\* line 235
updateVaultPathListed(p) ==
  /\ At(p, "updateVaultPath", "list")
  /\ files' = getVaultFiles(frames[p].path)
  /\ Resume(p, Finish(frames[p], "ok"))
  /\ UNCHANGED <<vaults, activeVaultId, isLoading, error, persisted,
                 nextId, started>>

\* ---------------------------------------------------------------------------
\* deleteVault
\* ---------------------------------------------------------------------------

\* lines 246-254
deleteVault(p, id) ==
  /\ Free(p)
  /\ LET f == NewFrame("deleteVault", id, <<>>, <<>>)
         vaultIndex == findIndex(vaults, id)
         newVaults == filterOut(vaults, id)
     IN  IF vaultIndex = 0
         THEN Begin(p, Finish(f, "not_found"))
         ELSE Begin(p, CallSave(f, newVaults))
  /\ UNCHANGED <<store, persisted, nextId>>

\* lines 256-291: after the save
deleteVaultSaved(p) ==
  /\ At(p, "deleteVault", "saved")
  /\ LET f == frames[p]
         newVaults == f.vaults
     IN  IF f.active = f.id
         THEN IF Len(newVaults) > 0
              THEN \* the first accessibility check of the loop
                   /\ Resume(p, CallCheck(f, 1))
                   /\ UNCHANGED <<vaults, activeVaultId, files>>
              ELSE \* no vaults left
                   /\ vaults' = <<>>
                   /\ activeVaultId' = NoId
                   /\ files' = <<>>
                   /\ Deleted(p, Finish(f, "ok"))
         ELSE /\ vaults' = newVaults
              /\ Deleted(p, Finish(f, "ok"))
              /\ UNCHANGED <<activeVaultId, files>>
  /\ UNCHANGED <<isLoading, error, persisted, nextId, started>>

\* lines 260-279: one answer of checkVaultAccessible inside the loop
deleteVaultChecked(p, isAccessible) ==
  /\ At(p, "deleteVault", "check")
  /\ isAccessible \in checkVaultAccessible(frames[p].vaults[frames[p].i].path)
  /\ LET f == frames[p]
         i == f.i
         newVaults == f.vaults
         g == Probed(f, f.vaults[f.i].path, isAccessible)
     IN  IF isAccessible
         THEN /\ Resume(p, Await(g, "list"))
              /\ UNCHANGED <<vaults, activeVaultId, files>>
         ELSE IF i < Len(newVaults)
         THEN /\ Resume(p, CallCheck(g, i + 1))
              /\ UNCHANGED <<vaults, activeVaultId, files>>
         ELSE \* no accessible vault found
              /\ vaults' = newVaults
              /\ activeVaultId' = NoId
              /\ files' = <<>>
              /\ Deleted(p, Finish(g, "ok"))
  /\ UNCHANGED <<isLoading, error, persisted, nextId, started>>

\* lines 263-270
deleteVaultListed(p) ==
  /\ At(p, "deleteVault", "list")
  /\ LET f == frames[p]
         vault == f.vaults[f.i]
     IN  /\ vaults' = f.vaults
         /\ activeVaultId' = vault.id
         /\ files' = getVaultFiles(vault.path)
         /\ Deleted(p, [Finish(f, "ok") EXCEPT !.ret.id = vault.id])
  /\ UNCHANGED <<isLoading, error, persisted, nextId, started>>

\* ---------------------------------------------------------------------------
\* moveVaultUp, moveVaultDown
\* ---------------------------------------------------------------------------

\* Mutant: the early return of moveVaultUp comes after the persistence call.
moveVaultUpSavesFirst(p, id) ==
  /\ Free(p)
  /\ LET f == NewFrame("moveVaultUp", id, <<>>, <<>>)
         index == findIndex(vaults, id)
     IN  IF index <= 1
         THEN Begin(p, Finish(CallSave(f, vaults), "noop"))
         ELSE Begin(p, CallSave(f, swap(vaults, index - 1, index)))
  /\ UNCHANGED <<store, persisted, nextId>>

\* lines 303-311
moveVaultUp(p, id) ==
  /\ Free(p)
  /\ LET f == NewFrame("moveVaultUp", id, <<>>, <<>>)
         index == findIndex(vaults, id)
     IN  IF index <= 1
         THEN Begin(p, Finish(f, "noop"))
         ELSE Begin(p, CallSave(f, swap(vaults, index - 1, index)))
  /\ UNCHANGED <<store, persisted, nextId>>

\* lines 319-327
moveVaultDown(p, id) ==
  /\ Free(p)
  /\ LET f == NewFrame("moveVaultDown", id, <<>>, <<>>)
         index == findIndex(vaults, id)
     IN  IF index = 0 \/ index >= Len(vaults)
         THEN Begin(p, Finish(f, "noop"))
         ELSE Begin(p, CallSave(f, swap(vaults, index, index + 1)))
  /\ UNCHANGED <<store, persisted, nextId>>

\* lines 312 and 328
moveVaultSaved(p) ==
  /\ frames[p].op \in {"moveVaultUp", "moveVaultDown"}
  /\ frames[p].pc = "saved"
  /\ vaults' = frames[p].vaults
  /\ Resume(p, Finish(frames[p], "ok"))
  /\ UNCHANGED <<activeVaultId, files, isLoading, error, persisted,
                 nextId, started>>

\* ---------------------------------------------------------------------------
\* setActiveVault, refreshFiles
\* ---------------------------------------------------------------------------

\* lines 341-351: frame.path is vault.path of the entry found at the call
setActiveVault(p, id) ==
  /\ Free(p)
  /\ LET index == findIndex(vaults, id)
         f == NewFrame("setActiveVault", id, <<>>, <<>>)
     IN  IF index = 0
         THEN Begin(p, Finish(f, "not_found")) /\ UNCHANGED <<isLoading, error>>
         ELSE /\ isLoading' = TRUE
              /\ error' = NULL
              /\ Begin(p, [CallCheck(f, 0) EXCEPT
                              !.path = vaults[index].path,
                              !.name = vaults[index].name])
  /\ UNCHANGED <<vaults, activeVaultId, files, persisted, nextId>>

\* lines 351-356 and 363-369
setActiveVaultChecked(p, isAccessible) ==
  /\ At(p, "setActiveVault", "check")
  /\ isAccessible \in checkVaultAccessible(frames[p].path)
  /\ LET f == Probed(frames[p], frames[p].path, isAccessible)
     IN  IF ~isAccessible
         THEN /\ isLoading' = FALSE
              /\ error' = "Failed to switch vault"
              /\ Resume(p, Finish(f, "inaccessible"))
         ELSE /\ Resume(p, Await(f, "list"))
              /\ UNCHANGED <<isLoading, error>>
  /\ UNCHANGED <<vaults, activeVaultId, files, persisted, nextId,
                 started>>

\* lines 356-362
setActiveVaultListed(p) ==
  /\ At(p, "setActiveVault", "list")
  /\ activeVaultId' = frames[p].id
  /\ files' = getVaultFiles(frames[p].path)
  /\ isLoading' = FALSE
  /\ Resume(p, Finish(frames[p], "ok"))
  /\ UNCHANGED <<vaults, error, persisted, nextId, started>>

\* lines 381-391
refreshFiles(p) ==
  /\ Free(p)
  /\ LET f == NewFrame("refreshFiles", activeVaultId, <<>>, <<>>)
         index == findIndex(vaults, activeVaultId)
     IN  IF activeVaultId = NoId \/ index = 0
         THEN Begin(p, Finish(f, "noop")) /\ UNCHANGED isLoading
         ELSE /\ isLoading' = TRUE
              /\ Begin(p, [Await(f, "list") EXCEPT !.path = vaults[index].path])
  /\ UNCHANGED <<vaults, activeVaultId, files, error, persisted, nextId>>

\* line 392
refreshFilesListed(p) ==
  /\ At(p, "refreshFiles", "list")
  /\ files' = getVaultFiles(frames[p].path)
  /\ isLoading' = FALSE
  /\ Resume(p, Finish(frames[p], "ok"))
  /\ UNCHANGED <<vaults, activeVaultId, error, persisted, nextId,
                 started>>

\* ---------------------------------------------------------------------------
\* addRecentFile, reset
\* ---------------------------------------------------------------------------

\* Number of distinct file paths opened in one behaviour; a path is named
\* by the rank of its first opening.
MaxPaths == 12

\* Number of times a path opened before is opened again in one behaviour.
MaxReopens == 2

\* slice(0, 10), line 408
MAX_RECENT_FILES == 10

\* Array.prototype.slice(0, n)
slice(seq, n) == SubSeq(seq, 1, IF Len(seq) < n THEN Len(seq) ELSE n)

\* Mutant: the path is put in front without being taken out of the list.
addRecentFileStateUnfiltered(list, path) ==
  slice(<<path>> \o list, MAX_RECENT_FILES)

\* lines 407-408
addRecentFileState(list, path) ==
  slice(<<path>> \o SelectSeq(list, LAMBDA f : f # path),
        MAX_RECENT_FILES)

\* A path never opened before
FreshFileInputs == {Len(recency) + 1 : k \in {1} \cap 1..(MaxPaths - Len(recency))}

\* Paths opened before: the one opened last, the oldest one still listed,
\* and the one that left the list longest ago
ReopenedFileInputs ==
  {recency[k] : k \in {1, Len(recentFiles), Len(recency)} \cap 1..Len(recency)}

\* lines 405-411
addRecentFile(path) ==
  /\ recentFiles' = addRecentFileState(recentFiles, path)
  /\ recentCall' = [op |-> "addRecentFile", arg |-> path,
                    pre |-> recentFiles]
  /\ recency' = <<path>> \o SelectSeq(recency, LAMBDA f : f # path)
  /\ reopened' = IF path \in ReopenedFileInputs THEN reopened + 1
                 ELSE reopened
  /\ UNCHANGED <<vaultVars, pureVars, mapVars, editorVars, uiVars,
                 toastVars>>

\* lines 438-440, called with no vault operation in flight
reset ==
  /\ \A p \in Procs : Free(p)
  /\ vaults' = <<>>
  /\ activeVaultId' = NoId
  /\ files' = <<>>
  /\ isLoading' = FALSE
  /\ error' = NULL
  /\ recentFiles' = <<>>
  /\ recentCall' = [op |-> "reset", arg |-> 0, pre |-> recentFiles]
  /\ recency' = <<>>
  /\ reopened' = 0
  /\ UNCHANGED <<persisted, nextId, frames, started, pureVars, mapVars,
                 editorVars, uiVars, toastVars>>

\* ---------------------------------------------------------------------------
\* Calls of validateVaultName and isPathDuplicate
\* ---------------------------------------------------------------------------

\* n times the character c
RECURSIVE repeat(_, _)
repeat(c, n) == IF n = 0 THEN <<>> ELSE <<c>> \o repeat(c, n - 1)

\* Names handed to validateVaultName: plain, with whitespace in front, at
\* the end and inside, empty, with a hyphen, an underscore and a digit, with
\* a character outside the pattern, and of the longest length and one more
ValidatedNameInputs ==
  { <<"a">>, <<"A">>, <<"b">>, <<"c">>, <<>>, <<" ">>,
    <<" ", "a">>, <<"a", " ">>, <<"\t", "a">>,
    <<"a", " ", "b">>, <<"a", "\t", "b">>,
    <<"a", "-", "b", "_", "2">>, <<"a", "!">>,
    repeat("a", VAULT_NAME_MAX_LENGTH),
    repeat("a", VAULT_NAME_MAX_LENGTH + 1) }

\* Paths handed to isPathDuplicate
CheckedPathInputs ==
  { <<>>, <<"/">>, <<"/", "a">>, <<"/", "A", "/">>, <<"\\", "a">>,
    <<"/", "a", "/", "/">>, <<"/", "b">>, <<"/", "a", "/", "b">>,
    <<"/", "A", "\\", "b", "\\">> }

\* Vault lists handed to the helpers
ExistingVaultsInputs ==
  { <<>>,
    << Vault(1, <<"a">>, <<"/", "a">>) >>,
    << Vault(1, <<"A">>, <<"/", "A", "/">>), Vault(2, <<"b">>, <<"/", "b">>) >>,
    << Vault(1, <<"a", " ", "b">>, <<"/", "a", "/", "b">>),
       Vault(2, <<"C">>, <<"\\", "a">>) >> }

\* excludeId: left out, or the id of an entry
ExcludeIdInputs == {NoId} \cup Ids

\* validateVaultName(name, existingVaults, excludeId) is called
validateVaultNameCalled(name, existingVaults, excludeId) ==
  /\ pureCall' = [fn |-> "validateVaultName", name |-> name,
                  existingVaults |-> existingVaults,
                  excludeId |-> excludeId,
                  result |-> validateVaultName(name, existingVaults,
                                               excludeId)]
  /\ UNCHANGED <<vaultVars, recentVars, mapVars, editorVars, uiVars,
                 toastVars>>

\* isPathDuplicate(path, existingVaults, excludeId) is called
isPathDuplicateCalled(path, existingVaults, excludeId) ==
  /\ pureCall' = [fn |-> "isPathDuplicate", path |-> path,
                  existingVaults |-> existingVaults,
                  excludeId |-> excludeId,
                  result |-> isPathDuplicate(path, existingVaults,
                                             excludeId)]
  /\ UNCHANGED <<vaultVars, recentVars, mapVars, editorVars, uiVars,
                 toastVars>>

\* ---------------------------------------------------------------------------
\* Document session store (mapStore)
\* ---------------------------------------------------------------------------

\* Longest node list and longest edge list a document grows to by addNode
\* and addEdge.
MaxNodes == 2

MaxEdges == 2

\* Latest reading of the clock.
MaxTime == 2

\* Readings of the system clock, in milliseconds
Times == 1..MaxTime

\* Date.prototype.toISOString: the reading as an ISO 8601 string, distinct
\* readings giving distinct strings
toISOString(t) == [iso |-> t]

\* interface NoteNode (position, size and style left out)
NoteNode(id, content) == [id |-> id, type |-> "note", content |-> content]

\* interface EdgeData (style left out)
EdgeData(id, sourceNodeId, targetNodeId) ==
  [id |-> id, sourceNodeId |-> sourceNodeId, targetNodeId |-> targetNodeId]

\* interface MSchemaFile
MSchemaFile(name, viewport, nodes, edges) ==
  [version |-> 1,
   meta |-> [name |-> name, id |-> name, createdAt |-> toISOString(0),
             modifiedAt |-> toISOString(0)],
   canvas |-> [viewport |-> viewport, background |-> "#ffffff"],
   nodes |-> nodes, edges |-> edges]

\* interface MindMapNode (position, size, style left out); parentId null is
\* NoId
MindMapNode(id, content, parentId, childrenIds) ==
  [id |-> id, type |-> "mindmap", content |-> content,
   parentId |-> parentId, childrenIds |-> childrenIds]

NodeInputs == { NoteNode(2, "x") }

\* A mind map document: a root with one child, every reference resolving
MindMapFileInputs ==
  { MSchemaFile("m", [x |-> 0, y |-> 0, zoom |-> 1],
                << MindMapNode(1, "x", NoId, <<2>>),
                   MindMapNode(2, "x", 1, <<>>) >>,
                << EdgeData(1, 1, 2) >>) }

\* A new root node, which refers to no other node
MindMapNodeInputs == { MindMapNode(3, "x", NoId, <<>>) }

\* The ids of the nodes of the mind map document and of the new root
MindMapNodeIdInputs == {1, 2, 3}

NodeIdInputs == {1, 2}

\* Partial<Node>
UpdateInputs == { [content |-> "y"] }

EdgeInputs == { EdgeData(2, 1, 2) }

EdgeIdInputs == {1, 2}

ViewportInputs == { [x |-> 0, y |-> 0, zoom |-> 1], [x |-> 5, y |-> 5, zoom |-> 2] }

FileInputs ==
  { MSchemaFile("a", [x |-> 0, y |-> 0, zoom |-> 1],
                << NoteNode(1, "x"), NoteNode(2, "x") >>,
                << EdgeData(1, 2, 2), EdgeData(2, 1, 2), EdgeData(3, 2, 2) >>),
    MSchemaFile("b", [x |-> 0, y |-> 0, zoom |-> 1], <<>>, <<>>) }

FilePathInputs == { "a.schema", "b.schema" }

\* { ...n, ...updates }
spread(n, updates) ==
  [k \in DOMAIN n \cup DOMAIN updates |->
     IF k \in DOMAIN updates THEN updates[k] ELSE n[k]]

\* Mutant: only the edges leaving the node are dropped.
keepsEdgeOfTarget(e, nodeId) == e.sourceNodeId # nodeId

\* removeNode's filter on edges, line 128
keepsEdge(e, nodeId) == e.sourceNodeId # nodeId /\ e.targetNodeId # nodeId

\* Mutant: loadMap keeps the dirty flag of the session it replaces.
loadMapStateKeepsDirty(state, f, path) ==
  [file |-> f, filePath |-> path, isDirty |-> state.isDirty]

\* lines 62-66: the state loadMap sets
loadMapState(state, f, path) ==
  [file |-> f, filePath |-> path, isDirty |-> FALSE]

\* lines 73-77
updateFileState(state, f) == [state EXCEPT !.file = f, !.isDirty = TRUE]

\* lines 84-94
addNodeState(state, node) ==
  IF state.file = NoFile THEN state
  ELSE [state EXCEPT !.file.nodes = Append(@, node), !.isDirty = TRUE]

\* lines 101-113
updateNodeState(state, nodeId, updates) ==
  IF state.file = NoFile THEN state
  ELSE [state EXCEPT
          !.file.nodes = [k \in 1..Len(@) |->
                            IF @[k].id = nodeId THEN spread(@[k], updates)
                            ELSE @[k]],
          !.isDirty = TRUE]

\* Mutant: removeNode clears the dirty flag.
removeNodeStateClears(state, nodeId) ==
  IF state.file = NoFile THEN state
  ELSE [state EXCEPT
          !.file.nodes = SelectSeq(@, LAMBDA n : n.id # nodeId),
          !.file.edges = SelectSeq(@, LAMBDA e : keepsEdge(e, nodeId)),
          !.isDirty = FALSE]

\* lines 120-133
removeNodeState(state, nodeId) ==
  IF state.file = NoFile THEN state
  ELSE [state EXCEPT
          !.file.nodes = SelectSeq(@, LAMBDA n : n.id # nodeId),
          !.file.edges = SelectSeq(@, LAMBDA e : keepsEdge(e, nodeId)),
          !.isDirty = TRUE]

\* Mutant: addEdge appends the edge without marking the session dirty.
addEdgeStateClean(state, edge) ==
  IF state.file = NoFile THEN state
  ELSE [state EXCEPT !.file.edges = Append(@, edge)]

\* lines 140-150
addEdgeState(state, edge) ==
  IF state.file = NoFile THEN state
  ELSE [state EXCEPT !.file.edges = Append(@, edge), !.isDirty = TRUE]

\* lines 157-167
removeEdgeState(state, edgeId) ==
  IF state.file = NoFile THEN state
  ELSE [state EXCEPT
          !.file.edges = SelectSeq(@, LAMBDA e : e.id # edgeId),
          !.isDirty = TRUE]

\* Mutant: a viewport change marks the session dirty.
updateViewportStateDirty(state, viewport) ==
  IF state.file = NoFile THEN state
  ELSE [state EXCEPT !.file.canvas.viewport = viewport, !.isDirty = TRUE]

\* lines 174-188
updateViewportState(state, viewport) ==
  IF state.file = NoFile THEN state
  ELSE [state EXCEPT !.file.canvas.viewport = viewport]

\* Mutant: markSaved clears the flag and leaves the modification time.
markSavedStateNoStamp(state, now) == [state EXCEPT !.isDirty = FALSE]

\* lines 195-205; `now` is the reading of the clock by new Date()
markSavedState(state, now) ==
  IF state.file = NoFile THEN [state EXCEPT !.isDirty = FALSE]
  ELSE [state EXCEPT !.isDirty = FALSE,
                     !.file.meta.modifiedAt = toISOString(now)]

\* writable's set and update: the store takes `state`; the call is recorded
MapWrite(op, arg, state) ==
  /\ file' = state.file
  /\ filePath' = state.filePath
  /\ isDirty' = state.isDirty
  /\ mapCall' = [op |-> op, arg |-> arg, pre |-> MapSnapshot]

\* A call of a mapStore method from outside a save of the editor
MapSet(op, arg, state) ==
  /\ MapWrite(op, arg, state)
  /\ UNCHANGED <<vaultVars, recentVars, pureVars, editorVars, uiVars,
                 toastVars>>

loadMap(f, path) ==
  MapSet("loadMap", [file |-> f, filePath |-> path],
         loadMapState(MapSnapshot, f, path))

updateFile(f) == MapSet("updateFile", f, updateFileState(MapSnapshot, f))

addNode(node) ==
  /\ file # NoFile => Len(file.nodes) < MaxNodes
  /\ MapSet("addNode", node, addNodeState(MapSnapshot, node))

updateNode(nodeId, updates) ==
  MapSet("updateNode", [nodeId |-> nodeId, updates |-> updates],
         updateNodeState(MapSnapshot, nodeId, updates))

removeNode(nodeId) ==
  MapSet("removeNode", nodeId, removeNodeState(MapSnapshot, nodeId))

addEdge(edge) ==
  /\ file # NoFile => Len(file.edges) < MaxEdges
  /\ MapSet("addEdge", edge, addEdgeState(MapSnapshot, edge))

removeEdge(edgeId) ==
  MapSet("removeEdge", edgeId, removeEdgeState(MapSnapshot, edgeId))

updateViewport(viewport) ==
  MapSet("updateViewport", viewport,
         updateViewportState(MapSnapshot, viewport))

markSaved(now) == MapSet("markSaved", now, markSavedState(MapSnapshot, now))

\* lines 211-213
closeMap ==
  MapSet("closeMap", NULL,
         [file |-> NoFile, filePath |-> NULL, isDirty |-> FALSE])

\* ---------------------------------------------------------------------------
\* Editor page: saveMap
\* ---------------------------------------------------------------------------

\* The document the editor opens, and its location
EditorFileInputs == { MSchemaFile("b", [x |-> 0, y |-> 0, zoom |-> 1], <<>>, <<>>) }

EditorPathInputs == { "b.schema" }

\* Number of writes the editor starts in one behaviour
MaxSaves == 1

\* The clock readings of markSaved in a save
SaveTimes == {1}

\* +page.svelte lines 50-57: saveMap reads the store and calls writeMapFile
\* with the document and location it read; with no document or no location
\* it returns at once
saveMap ==
  /\ saving.pc \in {"idle", "done", "failed"}
  /\ saving.saves < MaxSaves
  /\ IF file = NoFile \/ filePath = NULL
     THEN UNCHANGED saving
     ELSE saving' = [pc |-> "write", file |-> file, filePath |-> filePath,
                     saves |-> saving.saves + 1]
  /\ UNCHANGED <<written, vaultVars, recentVars, pureVars, mapVars, uiVars,
                 toastVars>>

\* writeMapFile puts the document it was handed on disk; `written` holds the
\* document whose JSON text the file now is
WriteMapFileWrites ==
  /\ saving.pc = "write"
  /\ written' = [filePath |-> saving.filePath, map |-> saving.file]
  /\ saving' = [NotSaving EXCEPT !.pc = "written", !.saves = saving.saves]
  /\ UNCHANGED <<vaultVars, recentVars, pureVars, mapVars, uiVars,
                 toastVars>>

\* writeMapFile rejects: lines 60-63, the catch of saveMap
WriteMapFileFails ==
  /\ saving.pc = "write"
  /\ saving' = [NotSaving EXCEPT !.pc = "failed", !.saves = saving.saves]
  /\ UNCHANGED <<written, vaultVars, recentVars, pureVars, mapVars, uiVars,
                 toastVars>>

\* +page.svelte lines 58-59: saveMap resumes after the write and calls
\* mapStore.markSaved()
saveMapWritten(now) ==
  /\ saving.pc = "written"
  /\ MapWrite("markSaved", now, markSavedState(MapSnapshot, now))
  /\ saving' = [NotSaving EXCEPT !.pc = "done", !.saves = saving.saves]
  /\ UNCHANGED <<written, vaultVars, recentVars, pureVars, uiVars,
                 toastVars>>

\* ---------------------------------------------------------------------------
\* Selection and tool store (uiStore)
\* ---------------------------------------------------------------------------

\* type Tool
Tools == {"select", "note", "mindmap", "edge"}

\* ModalState['type']
ModalTypes == {"delete-confirm", "export", "new-file"}

\* string[] arguments of selectNodes, addToSelection and selectAll
NodeIdListInputs == { <<>>, <<1>>, <<2, 1>>, <<2, 2>> }

\* Positions of the pointer
PointInputs == { [x |-> 3, y |-> 4] }

\* new Set(array)
SetOf(seq) == {seq[k] : k \in 1..Len(seq)}

\* lines 53-57
selectNodeState(state, nodeId) ==
  [state EXCEPT !.selectedNodeIds = {nodeId}, !.selectedEdgeIds = {}]

\* Mutant: the toggled id is selected whether or not it was.
toggleNodeSelectionStateAdds(state, nodeId) ==
  [state EXCEPT !.selectedNodeIds = @ \cup {nodeId}]

\* lines 64-75
toggleNodeSelectionState(state, nodeId) ==
  [state EXCEPT !.selectedNodeIds =
     IF nodeId \in @ THEN @ \ {nodeId} ELSE @ \cup {nodeId}]

\* lines 82-86
selectNodesState(state, nodeIds) ==
  [state EXCEPT !.selectedNodeIds = SetOf(nodeIds), !.selectedEdgeIds = {}]

\* lines 93-96
addToSelectionState(state, nodeIds) ==
  [state EXCEPT !.selectedNodeIds = @ \cup SetOf(nodeIds)]

\* lines 103-107
clearSelectionState(state) ==
  [state EXCEPT !.selectedNodeIds = {}, !.selectedEdgeIds = {}]

\* lines 114-117
selectAllState(state, allNodeIds) ==
  [state EXCEPT !.selectedNodeIds = SetOf(allNodeIds)]

\* Mutant: the tool changes and the node stays in edit mode.
setToolStateKeepsEditing(state, tool) == [state EXCEPT !.selectedTool = tool]

\* lines 128-133
setToolState(state, tool) ==
  [state EXCEPT !.selectedTool = tool, !.editingNodeId = NoId]

\* Mutant: the edited node is added to the selection.
startEditingStateExtends(state, nodeId) ==
  [state EXCEPT !.editingNodeId = nodeId, !.selectedNodeIds = @ \cup {nodeId}]

\* lines 144-148
startEditingState(state, nodeId) ==
  [state EXCEPT !.editingNodeId = nodeId, !.selectedNodeIds = {nodeId}]

\* lines 155-158
stopEditingState(state) == [state EXCEPT !.editingNodeId = NoId]

\* lines 169-172
showContextMenuState(state, x, y, nodeId) ==
  [state EXCEPT !.contextMenu = [x |-> x, y |-> y, nodeId |-> nodeId]]

\* lines 179-182
hideContextMenuState(state) == [state EXCEPT !.contextMenu = NoContextMenu]

\* lines 193-196
showModalState(state, type, data) ==
  [state EXCEPT !.modal = [type |-> type, data |-> data]]

\* lines 203-206
hideModalState(state) == [state EXCEPT !.modal = NoModal]

\* writable's set and update: the store takes `state`; the call is recorded
UiSet(op, arg, state) ==
  /\ selectedNodeIds' = state.selectedNodeIds
  /\ selectedEdgeIds' = state.selectedEdgeIds
  /\ selectedTool' = state.selectedTool
  /\ editingNodeId' = state.editingNodeId
  /\ contextMenu' = state.contextMenu
  /\ modal' = state.modal
  /\ uiCall' = [op |-> op, arg |-> arg, pre |-> UiSnapshot]
  /\ UNCHANGED <<vaultVars, recentVars, pureVars, mapVars, editorVars,
                 toastVars>>

selectNode(nodeId) ==
  UiSet("selectNode", nodeId, selectNodeState(UiSnapshot, nodeId))

toggleNodeSelection(nodeId) ==
  UiSet("toggleNodeSelection", nodeId,
        toggleNodeSelectionState(UiSnapshot, nodeId))

selectNodes(nodeIds) ==
  UiSet("selectNodes", nodeIds, selectNodesState(UiSnapshot, nodeIds))

addToSelection(nodeIds) ==
  UiSet("addToSelection", nodeIds, addToSelectionState(UiSnapshot, nodeIds))

clearSelection ==
  UiSet("clearSelection", NULL, clearSelectionState(UiSnapshot))

selectAll(allNodeIds) ==
  UiSet("selectAll", allNodeIds, selectAllState(UiSnapshot, allNodeIds))

setTool(tool) == UiSet("setTool", tool, setToolState(UiSnapshot, tool))

startEditing(nodeId) ==
  UiSet("startEditing", nodeId, startEditingState(UiSnapshot, nodeId))

stopEditing == UiSet("stopEditing", NULL, stopEditingState(UiSnapshot))

showContextMenu(x, y, nodeId) ==
  UiSet("showContextMenu", [x |-> x, y |-> y, nodeId |-> nodeId],
        showContextMenuState(UiSnapshot, x, y, nodeId))

hideContextMenu ==
  UiSet("hideContextMenu", NULL, hideContextMenuState(UiSnapshot))

showModal(type, data) ==
  UiSet("showModal", [type |-> type, data |-> data],
        showModalState(UiSnapshot, type, data))

hideModal == UiSet("hideModal", NULL, hideModalState(UiSnapshot))

\* lines 216-218 (uiStore.reset)
uiReset == UiSet("reset", NULL, uiInitialState)

\* ---------------------------------------------------------------------------
\* Notification queue (toastStore)
\* ---------------------------------------------------------------------------

\* Number of toasts added in one behaviour: caps idCounter.
MaxToasts == 3

TOAST_DURATION == 5000

\* Mutant: every toast gets the id of the first.
toastIdReused(n) == <<"toast-", 1>>

\* `toast-${n}`
toastId(n) == <<"toast-", n>>

\* The ids add hands out
ToastIds == {toastId(n) : n \in 1..MaxToasts}

MessageInputs == {"saved"}

\* ToastType, as passed by the convenience methods info and error
ToastTypeInputs == {"info", "error"}

\* duration: 0 for a persistent toast, the default when it is left out
DurationInputs == {0, TOAST_DURATION}

\* Mutant: a timer is set for a duration of 0 as well.
scheduledAlways(duration) == duration >= 0

\* line 168: if (duration > 0)
scheduled(duration) == duration > 0

\* Mutant: the oldest toast is removed, whatever its id.
dismissStateOldest(ts, id) == IF ts = <<>> THEN ts ELSE Tail(ts)

\* state.toasts.filter(t => t.id !== id), line 177
dismissState(ts, id) == SelectSeq(ts, LAMBDA t : t.id # id)

\* Mutant: the new toast is put in front of the queue.
appendToastInFront(ts, toast) == <<toast>> \o ts

\* [...state.toasts, toast], line 164
appendToast(ts, toast) == Append(ts, toast)

\* lines 153-173; setTimeout registers the callback of the new id
add(message, type, duration) ==
  /\ idCounter < MaxToasts
  /\ LET id == toastId(idCounter + 1)
         toast == [id |-> id, message |-> message, type |-> type,
                   duration |-> duration]
     IN  /\ idCounter' = idCounter + 1
         /\ toasts' = appendToast(toasts, toast)
         /\ timers' = IF scheduled(duration) THEN timers \cup {id} ELSE timers
         /\ toastCall' = [op |-> "add", arg |-> toast, pre |-> toasts]
  /\ UNCHANGED <<vaultVars, recentVars, pureVars, mapVars, editorVars,
                 uiVars>>

\* lines 175-179
dismiss(id) ==
  /\ toasts' = dismissState(toasts, id)
  /\ toastCall' = [op |-> "dismiss", arg |-> id, pre |-> toasts]
  /\ UNCHANGED <<idCounter, timers, vaultVars, recentVars, pureVars,
                 mapVars, editorVars, uiVars>>

\* line 169: the callback () => dismiss(id) of a timer runs
timerFires(id) ==
  /\ id \in timers
  /\ timers' = timers \ {id}
  /\ toasts' = dismissState(toasts, id)
  /\ toastCall' = [op |-> "timer", arg |-> id, pre |-> toasts]
  /\ UNCHANGED <<idCounter, vaultVars, recentVars, pureVars,
                 mapVars, editorVars, uiVars>>

\* lines 181-183
clear ==
  /\ toasts' = <<>>
  /\ toastCall' = [op |-> "clear", arg |-> NULL, pre |-> toasts]
  /\ UNCHANGED <<idCounter, timers, vaultVars, recentVars, pureVars,
                 mapVars, editorVars, uiVars>>

\* ---------------------------------------------------------------------------
\* Specifications
\* ---------------------------------------------------------------------------

\* A call of a store method in slot p
Call(p) ==
  \/ initialize(p)
  \/ \E name \in NameInputs, path \in PathInputs : addVault(p, name, path)
  \/ \E id \in Ids, newName \in NameInputs : renameVault(p, id, newName)
  \/ \E id \in Ids, newPath \in PathInputs : updateVaultPath(p, id, newPath)
  \/ \E id \in Ids : deleteVault(p, id)
  \/ \E id \in Ids : moveVaultUp(p, id)
  \/ \E id \in Ids : moveVaultDown(p, id)
  \/ \E id \in Ids : setActiveVault(p, id)
  \/ refreshFiles(p)

\* An external call completes, or the code after an await runs
Step(p) ==
  \/ SaveConfigWrites(p)
  \/ SaveConfigFails(p)
  \/ LoadConfigReads(p)
  \/ LoadConfigFails(p)
  \/ initializeLoaded(p)
  \/ initializeCatch(p)
  \/ \E isAccessible \in BOOLEAN : initializeChecked(p, isAccessible)
  \/ initializeListed(p)
  \/ addVaultSaved(p)
  \/ renameVaultSaved(p)
  \/ \E isAccessible \in BOOLEAN : updateVaultPathChecked(p, isAccessible)
  \/ updateVaultPathSaved(p)
  \/ updateVaultPathListed(p)
  \/ deleteVaultSaved(p)
  \/ \E isAccessible \in BOOLEAN : deleteVaultChecked(p, isAccessible)
  \/ deleteVaultListed(p)
  \/ moveVaultSaved(p)
  \/ \E isAccessible \in BOOLEAN : setActiveVaultChecked(p, isAccessible)
  \/ setActiveVaultListed(p)
  \/ refreshFilesListed(p)

\* Every operation runs to completion before the next one is called.
Next ==
  \/ Call(1) /\ UNCHANGED <<started, otherStores>>
  \/ Step(1) /\ UNCHANGED otherStores

Spec == Init /\ [][Next]_vars

\* The slot a call takes when operations interleave: the lowest free one.
FreeSlot(p) == Free(p) /\ \A q \in Procs : q < p => ~Free(q)

\* Operations interleave at their awaits.
ConcNext ==
  \/ \E p \in Procs :
       /\ FreeSlot(p)
       /\ started < MaxOps
       /\ Call(p)
       /\ started' = started + 1
       /\ UNCHANGED otherStores
  \/ \E p \in Procs : Step(p) /\ UNCHANGED otherStores

ConcSpec == Init /\ [][ConcNext]_vars

\* A call of one of the operations that persist a new vault list
ListCall(p) ==
  \/ \E name \in NameInputs, path \in PathInputs : addVault(p, name, path)
  \/ \E id \in Ids, newName \in NameInputs : renameVault(p, id, newName)
  \/ \E id \in Ids, newPath \in PathInputs : updateVaultPath(p, id, newPath)
  \/ \E id \in Ids : deleteVault(p, id)
  \/ \E id \in Ids : moveVaultUp(p, id)
  \/ \E id \in Ids : moveVaultDown(p, id)

\* An external call of one of these operations completes without failing,
\* or the code after an await runs
ListStep(p) ==
  \/ SaveConfigWrites(p)
  \/ addVaultSaved(p)
  \/ renameVaultSaved(p)
  \/ \E isAccessible \in BOOLEAN : updateVaultPathChecked(p, isAccessible)
  \/ updateVaultPathSaved(p)
  \/ updateVaultPathListed(p)
  \/ deleteVaultSaved(p)
  \/ \E isAccessible \in BOOLEAN : deleteVaultChecked(p, isAccessible)
  \/ deleteVaultListed(p)
  \/ moveVaultSaved(p)

\* initialize has completed
Initialized ==
  /\ started >= 1
  /\ ~(frames[1].op = "initialize" /\ frames[1].pc # "done")

\* initialize runs first and alone, its load succeeding; then the list
\* operations interleave at their awaits, and no persistence call fails.
SyncNext ==
  \/ /\ started = 0
     /\ initialize(1)
     /\ started' = 1
     /\ UNCHANGED otherStores
  \/ LoadConfigReads(1) /\ UNCHANGED otherStores
  \/ initializeLoaded(1) /\ UNCHANGED otherStores
  \/ \E isAccessible \in BOOLEAN :
       initializeChecked(1, isAccessible) /\ UNCHANGED otherStores
  \/ initializeListed(1) /\ UNCHANGED otherStores
  \/ \E p \in Procs :
       /\ Initialized
       /\ FreeSlot(p)
       /\ started < MaxOps
       /\ ListCall(p)
       /\ started' = started + 1
       /\ UNCHANGED otherStores
  \/ \E p \in Procs : ListStep(p) /\ UNCHANGED otherStores

SyncSpec == Init /\ [][SyncNext]_vars

\* A config of three vaults, for the reordering operations: with three
\* entries a move leaves one entry that is neither moved nor its neighbour.
MoveConfig ==
  << Vault(1, <<"a">>, <<"/", "a">>), Vault(2, <<"b">>, <<"/", "b">>),
     Vault(3, <<"c">>, <<"/", "c">>) >>

\* The ids of MoveConfig and one id no vault has
MoveIds == 1..(Len(MoveConfig) + 1)

MoveInit ==
  /\ vaults = <<>>
  /\ activeVaultId = NoId
  /\ files = <<>>
  /\ isLoading = FALSE
  /\ error = NULL
  /\ persisted = MoveConfig
  /\ nextId = Len(MoveConfig) + 1
  /\ frames = [p \in Procs |-> IdleFrame]
  /\ started = 0
  /\ RecentInit
  /\ PureInit
  /\ MapInit
  /\ EditorInit
  /\ UiInit
  /\ ToastInit

\* initialize and the reordering operations, one at a time
MoveNext ==
  \/ initialize(1) /\ UNCHANGED <<started, otherStores>>
  \/ \E id \in MoveIds : moveVaultUp(1, id) /\ UNCHANGED <<started, otherStores>>
  \/ \E id \in MoveIds : moveVaultDown(1, id) /\ UNCHANGED <<started, otherStores>>
  \/ SaveConfigWrites(1) /\ UNCHANGED otherStores
  \/ SaveConfigFails(1) /\ UNCHANGED otherStores
  \/ LoadConfigReads(1) /\ UNCHANGED otherStores
  \/ LoadConfigFails(1) /\ UNCHANGED otherStores
  \/ initializeLoaded(1) /\ UNCHANGED otherStores
  \/ initializeCatch(1) /\ UNCHANGED otherStores
  \/ \E isAccessible \in BOOLEAN :
       initializeChecked(1, isAccessible) /\ UNCHANGED otherStores
  \/ initializeListed(1) /\ UNCHANGED otherStores
  \/ moveVaultSaved(1) /\ UNCHANGED otherStores

MoveSpec == MoveInit /\ [][MoveNext]_vars

\* The application started with no config on disk
FreshInit == Init /\ persisted = <<>>

\* Files are opened one after the other; the store is reset now and then
RecentNext ==
  \/ \E path \in FreshFileInputs : addRecentFile(path)
  \/ \E path \in ReopenedFileInputs :
       reopened < MaxReopens /\ addRecentFile(path)
  \/ reset

RecentSpec == FreshInit /\ [][RecentNext]_vars

\* The helpers are called with every combination of the inputs
PureNext ==
  \/ \E name \in ValidatedNameInputs, existingVaults \in ExistingVaultsInputs,
        excludeId \in ExcludeIdInputs :
       validateVaultNameCalled(name, existingVaults, excludeId)
  \/ \E path \in CheckedPathInputs, existingVaults \in ExistingVaultsInputs,
        excludeId \in ExcludeIdInputs :
       isPathDuplicateCalled(path, existingVaults, excludeId)

PureSpec == FreshInit /\ [][PureNext]_vars

\* A call of a mapStore method
DocNext ==
  \/ \E f \in FileInputs, path \in FilePathInputs : loadMap(f, path)
  \/ \E f \in FileInputs : updateFile(f)
  \/ \E node \in NodeInputs : addNode(node)
  \/ \E nodeId \in NodeIdInputs, updates \in UpdateInputs :
       updateNode(nodeId, updates)
  \/ \E nodeId \in NodeIdInputs : removeNode(nodeId)
  \/ \E edge \in EdgeInputs : addEdge(edge)
  \/ \E edgeId \in EdgeIdInputs : removeEdge(edgeId)
  \/ \E viewport \in ViewportInputs : updateViewport(viewport)
  \/ \E now \in Times : markSaved(now)
  \/ closeMap

DocSpec == FreshInit /\ [][DocNext]_vars

\* A call of a uiStore method
UiNext ==
  \/ \E nodeId \in NodeIdInputs : selectNode(nodeId)
  \/ \E nodeId \in NodeIdInputs : toggleNodeSelection(nodeId)
  \/ \E nodeIds \in NodeIdListInputs : selectNodes(nodeIds)
  \/ \E nodeIds \in NodeIdListInputs : addToSelection(nodeIds)
  \/ clearSelection
  \/ \E allNodeIds \in NodeIdListInputs : selectAll(allNodeIds)
  \/ \E tool \in Tools : setTool(tool)
  \/ \E nodeId \in NodeIdInputs : startEditing(nodeId)
  \/ stopEditing
  \/ \E pt \in PointInputs, nodeId \in NodeIdInputs \cup {NoId} :
       showContextMenu(pt.x, pt.y, nodeId)
  \/ hideContextMenu
  \/ \E type \in ModalTypes : showModal(type, NULL)
  \/ hideModal
  \/ uiReset

UiSpec == FreshInit /\ [][UiNext]_vars

\* A mind map document is loaded and its nodes and edges are edited
MindMapNext ==
  \/ \E f \in MindMapFileInputs, path \in FilePathInputs : loadMap(f, path)
  \/ \E node \in MindMapNodeInputs : addNode(node)
  \/ \E nodeId \in MindMapNodeIdInputs, updates \in UpdateInputs :
       updateNode(nodeId, updates)
  \/ \E nodeId \in MindMapNodeIdInputs : removeNode(nodeId)
  \/ \E edge \in EdgeInputs : addEdge(edge)
  \/ \E edgeId \in EdgeIdInputs : removeEdge(edgeId)

MindMapSpec == FreshInit /\ [][MindMapNext]_vars

\* The editor: a document is loaded and edited, and saved with Ctrl+S; the
\* edits go on while a write is awaited
EditorNext ==
  \/ \E f \in EditorFileInputs, path \in EditorPathInputs : loadMap(f, path)
  \/ \E node \in NodeInputs : addNode(node)
  \/ \E nodeId \in NodeIdInputs, updates \in UpdateInputs :
       updateNode(nodeId, updates)
  \/ \E nodeId \in NodeIdInputs : removeNode(nodeId)
  \/ \E edge \in EdgeInputs : addEdge(edge)
  \/ \E edgeId \in EdgeIdInputs : removeEdge(edgeId)
  \/ saveMap
  \/ WriteMapFileWrites
  \/ WriteMapFileFails
  \/ \E now \in SaveTimes : saveMapWritten(now)

EditorSpec == FreshInit /\ [][EditorNext]_vars

\* A call of a toastStore method, or a timer running its callback
ToastNext ==
  \/ \E message \in MessageInputs, type \in ToastTypeInputs,
        duration \in DurationInputs : add(message, type, duration)
  \/ \E id \in ToastIds : dismiss(id)
  \/ \E id \in ToastIds : timerFires(id)
  \/ clear

ToastSpec == FreshInit /\ [][ToastNext]_vars

\* The event loop runs the callback of every timer that was set: nothing
\* cancels a timer (the store never calls clearTimeout).
ToastFairSpec == ToastSpec /\ \A id \in ToastIds : WF_vars(timerFires(id))

\* ---------------------------------------------------------------------------
\* Properties
\* ---------------------------------------------------------------------------

\* The frame of the one operation of Spec
F == frames[1]

Returned(op) == F.op = op /\ F.pc = "done"

IdsOf(vs) == {vs[k].id : k \in 1..Len(vs)}

\* Names pairwise distinct case-insensitively, paths pairwise distinct after
\* normalisation
VaultListValid(vs) ==
  \A i, j \in 1..Len(vs) :
    i # j => /\ toLowerCase(vs[i].name) # toLowerCase(vs[j].name)
             /\ normalizePath(vs[i].path) # normalizePath(vs[j].path)

\* C1: when the operations run one after the other, starting from a valid
\* list, the in-memory vault list always has pairwise case-insensitively
\* distinct names and pairwise distinct normalised paths.
C1_NamesAndPathsStayDistinct == VaultListValid(vaults)

\* C1 witness: with two vaults configured, a path update was refused as a
\* duplicate although the new path is written differently from the other
\* vault's path.
C1_Witness ==
  /\ Returned("updateVaultPath")
  /\ F.outcome = "duplicate_path"
  /\ Len(vaults) = 2
  /\ \A k \in 1..Len(vaults) : vaults[k].path # F.path

\* The first check of the log that passed
FirstPassed(probes) ==
  CHOOSE k \in 1..Len(probes) :
    probes[k].ok /\ \A j \in 1..(k - 1) : ~probes[j].ok

SomePassed(probes) == \E k \in 1..Len(probes) : probes[k].ok

AllFailed(f) ==
  /\ f.vaults # <<>>
  /\ Len(f.probes) = Len(f.vaults)
  /\ \A k \in 1..Len(f.probes) : ~f.probes[k].ok

\* C3: whenever initialize completes on a non-empty loaded list of which
\* every entry fails the accessibility check, the store has an error, no
\* active vault, no files and isLoading false, whatever it held before.
C3_AllInaccessibleLeavesNoActiveVault ==
  (Returned("initialize") /\ AllFailed(F)) =>
    /\ error # NULL
    /\ activeVaultId = NoId
    /\ files = <<>>
    /\ isLoading = FALSE

C5_AddVaultAppendsFreshEntry ==
  Returned("addVault") =>
    LET old == F.pre.vaults
    IN  /\ F.outcome = "ok" =>
             /\ Len(vaults) = Len(old) + 1
             /\ SubSeq(vaults, 1, Len(old)) = old
             /\ vaults[Len(vaults)] = Vault(F.ret.id, F.name, F.path)
             /\ F.ret.id \notin IdsOf(old)
        /\ F.outcome \in {"invalid_name", "duplicate_path"} =>
             /\ vaults = old
             /\ persisted = F.pre.persisted

\* C5 witness: a vault was added behind an existing one.
C5_Witness ==
  /\ Returned("addVault")
  /\ F.outcome = "ok"
  /\ Len(F.pre.vaults) = 1
  /\ Len(vaults) = 2

\* C6: an addVault, renameVault or updateVaultPath that fails for an invalid
\* name, a duplicate path or an unknown id has never invoked saveConfig and
\* has failed before any await; the config on disk is as it was.
C6_RejectedCallsNeverSave ==
  ( /\ F.pc = "done"
    /\ F.op \in {"addVault", "renameVault", "updateVaultPath"}
    /\ F.outcome \in {"invalid_name", "duplicate_path", "not_found"} ) =>
    /\ F.saves = 0
    /\ F.awaits = 0
    /\ persisted = F.pre.persisted

\* C6 witness: a rename to the name of the other vault was refused.
C6_Witness ==
  /\ Returned("renameVault")
  /\ F.outcome = "invalid_name"
  /\ Len(vaults) = 2
  /\ trim(F.name) = F.name

\* The rule of validateVaultName, stated on the characters
NameAcceptable(name, vs, id) ==
  /\ Len(name) \in 1..VAULT_NAME_MAX_LENGTH
  /\ name[1] \notin Whitespace
  /\ name[Len(name)] \notin Whitespace
  /\ \A i \in 1..Len(name) :
       name[i] \in Letters \cup Digits \cup Whitespace \cup {"-", "_"}
  /\ \A k \in 1..Len(vs) :
       vs[k].id # id => toLowerCase(vs[k].name) # toLowerCase(name)

\* C7: renameVault(id, newName) fails with not-found for an absent id and
\* with a validation error for an invalid name, the uniqueness being checked
\* against the other entries only; on success only the name of entry id
\* changes, to newName; on failure the list is unchanged.
C7_RenameVaultChangesOnlyTheName ==
  Returned("renameVault") =>
    LET old == F.pre.vaults
        known == F.id \in IdsOf(old)
        acceptable == NameAcceptable(F.name, old, F.id)
    IN  /\ ~known => F.outcome = "not_found"
        /\ (known /\ ~acceptable) => F.outcome = "invalid_name"
        /\ (known /\ acceptable) => F.outcome \in {"ok", "persist_error"}
        /\ F.outcome = "ok" =>
             /\ Len(vaults) = Len(old)
             /\ \A k \in 1..Len(old) :
                  vaults[k] = IF old[k].id = F.id
                              THEN Vault(old[k].id, F.name, old[k].path)
                              ELSE old[k]
        /\ F.outcome # "ok" => vaults = old

\* C7 witness: the second of two vaults was renamed to a case variant of
\* its own name.
C7_Witness ==
  /\ Returned("renameVault")
  /\ F.outcome = "ok"
  /\ Len(vaults) = 2
  /\ vaults[2].id = F.id
  /\ F.pre.vaults[2].name # F.name
  /\ toLowerCase(F.pre.vaults[2].name) = toLowerCase(F.name)

\* C8: updateVaultPath(id, newPath), run alone, fails with not-found for an
\* absent id, with duplicate-path when another entry has the same normalised
\* path, with inaccessible when the check rejects newPath, and every failure
\* leaves list, persisted config, activeVaultId and files unchanged; on
\* success only the path of entry id changes and files becomes the listing
\* of newPath exactly when id is the active vault.
C8_UpdateVaultPathChangesOnlyThePath ==
  Returned("updateVaultPath") =>
    LET old == F.pre.vaults
        known == F.id \in IdsOf(old)
        dup == \E k \in 1..Len(old) :
                 /\ old[k].id # F.id
                 /\ normalizePath(old[k].path) = normalizePath(F.path)
    IN  /\ ~known => F.outcome = "not_found"
        /\ (known /\ dup) => F.outcome = "duplicate_path"
        /\ (known /\ ~dup) =>
             /\ Len(F.probes) = 1
             /\ F.probes[1].path = F.path
             /\ ~F.probes[1].ok => F.outcome = "inaccessible"
             /\ F.probes[1].ok => F.outcome \in {"ok", "persist_error"}
        /\ F.outcome # "ok" =>
             /\ vaults = old
             /\ persisted = F.pre.persisted
             /\ activeVaultId = F.pre.activeVaultId
             /\ files = F.pre.files
        /\ F.outcome = "ok" =>
             /\ Len(vaults) = Len(old)
             /\ \A k \in 1..Len(old) :
                  vaults[k] = IF old[k].id = F.id
                              THEN Vault(old[k].id, old[k].name, F.path)
                              ELSE old[k]
             /\ activeVaultId = F.pre.activeVaultId
             /\ files = IF F.pre.activeVaultId = F.id
                        THEN getVaultFiles(F.path)
                        ELSE F.pre.files

\* C8 witness: the path of the active vault was changed and its files were
\* listed again, next to a second vault.
C8_Witness ==
  /\ Returned("updateVaultPath")
  /\ F.outcome = "ok"
  /\ F.pre.activeVaultId = F.id
  /\ files # F.pre.files
  /\ Len(vaults) = 2

\* C9: an operation on id that was suspended while a deleteVault(id)
\* completed fails when it resumes, and the list it leaves does not hold
\* id. (The claim names the error, not-found; it is stated here in its
\* weakest reading, any failure, so that a violation is a silent success
\* on stale data and not merely another error.)
C9_ResumedAfterDeleteFails ==
  \A p \in Procs :
    (frames[p].pc = "done" /\ frames[p].deletedMeanwhile) =>
      /\ frames[p].outcome # "ok"
      /\ frames[p].id \notin IdsOf(vaults)

\* The list without its entry id
Without(vs, id) ==
  LET i == CHOOSE k \in 1..Len(vs) : vs[k].id = id
  IN  SubSeq(vs, 1, i - 1) \o SubSeq(vs, i + 1, Len(vs))

\* What deleteVault leaves once the entry is removed
DeleteVaultEffect ==
  LET old == F.pre.vaults
      rest == Without(old, F.id)
  IN  /\ vaults = rest
      /\ IF F.pre.activeVaultId # F.id
         THEN /\ activeVaultId = F.pre.activeVaultId
              /\ files = F.pre.files
         ELSE IF SomePassed(F.probes)
         THEN LET k == FirstPassed(F.probes)
              IN  /\ \A j \in 1..k : F.probes[j].path = rest[j].path
                  /\ activeVaultId = rest[k].id
                  /\ files = getVaultFiles(rest[k].path)
         ELSE /\ Len(F.probes) = Len(rest)
              /\ activeVaultId = NoId
              /\ files = <<>>

Moved == F.pc = "done" /\ F.op \in {"moveVaultUp", "moveVaultDown"}

\* The 1-based position of the moved id in the list the call found (ids are
\* distinct in a vault list); 0 when no entry has the id
MovedFrom ==
  IF F.id \in IdsOf(F.pre.vaults)
  THEN CHOOSE k \in 1..Len(F.pre.vaults) : F.pre.vaults[k].id = F.id
  ELSE 0

\* The move has nowhere to go: first entry up, last entry down, unknown id
MoveAtBoundary ==
  \/ MovedFrom = 0
  \/ F.op = "moveVaultUp" /\ MovedFrom = 1
  \/ F.op = "moveVaultDown" /\ MovedFrom = Len(F.pre.vaults)

\* C11: moveVaultUp of the first entry, moveVaultDown of the last entry and
\* either of them on an id not in the list return normally, leave the vault
\* list as it was and never invoke saveConfig (nor await anything).
C11_MoveAtBoundaryIsSilentNoOp ==
  (Moved /\ MoveAtBoundary) =>
    /\ F.outcome = "noop"
    /\ vaults = F.pre.vaults
    /\ F.saves = 0
    /\ F.awaits = 0
    /\ persisted = F.pre.persisted

\* C11 witness: the first of three vaults was moved up.
C11_Witness ==
  /\ Returned("moveVaultUp")
  /\ Len(F.pre.vaults) = 3
  /\ MovedFrom = 1
  /\ F.outcome = "noop"

\* The list after the entry at MovedFrom changed places with the entry at
\* `other`: those two indices hold each other's entry, every other index
\* holds the entry it held.
ExchangedWith(other) ==
  /\ Len(vaults) = Len(F.pre.vaults)
  /\ vaults[other] = F.pre.vaults[MovedFrom]
  /\ vaults[MovedFrom] = F.pre.vaults[other]
  /\ \A k \in 1..Len(vaults) :
       k \notin {MovedFrom, other} => vaults[k] = F.pre.vaults[k]

\* The neighbour a move exchanges the entry with
MoveTarget == IF F.op = "moveVaultUp" THEN MovedFrom - 1 ELSE MovedFrom + 1

\* C12 as claimed: a moveVaultUp of an entry that is not the first, and a
\* moveVaultDown of an entry that is not the last, exchanges the entry with
\* its neighbour and leaves every other index as it was.
C12_MoveAlwaysExchanges ==
  (Moved /\ ~MoveAtBoundary) => ExchangedWith(MoveTarget)

\* C12 as amended: the same, provided saveConfig succeeds; when it rejects,
\* the move fails and the list is unchanged.
C12_MoveExchangesUnlessSaveFails ==
  (Moved /\ ~MoveAtBoundary) =>
    IF F.outcome = "persist_error"
    THEN vaults = F.pre.vaults
    ELSE /\ F.outcome = "ok"
         /\ F.saves = 1
         /\ ExchangedWith(MoveTarget)

\* C12 witness: the first of three vaults was moved down; the third stayed.
C12_Witness ==
  /\ Returned("moveVaultDown")
  /\ F.outcome = "ok"
  /\ Len(F.pre.vaults) = 3
  /\ MovedFrom = 1
  /\ vaults[2].id = F.id
  /\ vaults[3] = F.pre.vaults[3]

\* The state of mapStore before its last call
Pre == mapCall.pre

\* The parts of a loaded document other than its viewport
SameContent(f, g) ==
  /\ f.version = g.version
  /\ f.meta = g.meta
  /\ f.canvas.background = g.canvas.background
  /\ f.nodes = g.nodes
  /\ f.edges = g.edges

\* C13: after loadMap(document, location), whatever the session held (no
\* document, a clean one, a dirty one), file is that document, filePath that
\* location and isDirty is false.
C13_LoadMapReplacesSession ==
  mapCall.op = "loadMap" =>
    /\ file = mapCall.arg.file
    /\ filePath = mapCall.arg.filePath
    /\ isDirty = FALSE

\* C13 witness: a document was loaded over another, dirty, document from
\* another location.
C13_Witness ==
  /\ mapCall.op = "loadMap"
  /\ Pre.file # NoFile
  /\ Pre.isDirty
  /\ Pre.file.meta # mapCall.arg.file.meta
  /\ Pre.filePath # mapCall.arg.filePath
  /\ file = mapCall.arg.file

\* The operations that change the content of the document
Mutators ==
  {"addNode", "updateNode", "removeNode", "addEdge", "removeEdge",
   "updateFile"}

\* The document after the last call differs from the one before it only in
\* its node list and its edge list
OnlyListsChanged ==
  /\ file.version = Pre.file.version
  /\ file.meta = Pre.file.meta
  /\ file.canvas = Pre.file.canvas

\* The change of the last mutating call is in the document
ChangeApplied ==
  LET old == Pre.file
      arg == mapCall.arg
  IN  CASE mapCall.op = "updateFile" -> file = arg
        [] mapCall.op = "addNode" ->
             /\ OnlyListsChanged
             /\ file.nodes = old.nodes \o <<arg>>
             /\ file.edges = old.edges
        [] mapCall.op = "updateNode" ->
             /\ OnlyListsChanged
             /\ file.edges = old.edges
             /\ Len(file.nodes) = Len(old.nodes)
             /\ \A k \in 1..Len(old.nodes) :
                  IF old.nodes[k].id # arg.nodeId
                  THEN file.nodes[k] = old.nodes[k]
                  ELSE /\ DOMAIN file.nodes[k] =
                            DOMAIN old.nodes[k] \cup DOMAIN arg.updates
                       /\ \A key \in DOMAIN arg.updates :
                            file.nodes[k][key] = arg.updates[key]
                       /\ \A key \in DOMAIN old.nodes[k] \ DOMAIN arg.updates :
                            file.nodes[k][key] = old.nodes[k][key]
        [] mapCall.op = "removeNode" ->
             /\ OnlyListsChanged
             /\ \A k \in 1..Len(file.nodes) : file.nodes[k].id # arg
             /\ \A k \in 1..Len(file.edges) :
                  /\ file.edges[k].sourceNodeId # arg
                  /\ file.edges[k].targetNodeId # arg
        [] mapCall.op = "addEdge" ->
             /\ OnlyListsChanged
             /\ file.nodes = old.nodes
             /\ file.edges = old.edges \o <<arg>>
        [] mapCall.op = "removeEdge" ->
             /\ OnlyListsChanged
             /\ file.nodes = old.nodes
             /\ \A k \in 1..Len(file.edges) : file.edges[k].id # arg
             /\ \A k \in 1..Len(old.edges) :
                  old.edges[k].id # arg =>
                    \E j \in 1..Len(file.edges) : file.edges[j] = old.edges[k]

\* C14: on a loaded document each of addNode, updateNode, removeNode,
\* addEdge, removeEdge and updateFile applies its change and leaves isDirty
\* true, a clean session (as after loadMap or markSaved) included; the
\* document stays loaded from the same location.
C14_MutationsApplyAndMarkDirty ==
  (mapCall.op \in Mutators /\ Pre.file # NoFile) =>
    /\ file # NoFile
    /\ ChangeApplied
    /\ isDirty = TRUE
    /\ filePath = Pre.filePath

\* C14 witness: an edge was added to a clean document, which became dirty.
C14_Witness ==
  /\ mapCall.op = "addEdge"
  /\ Pre.file # NoFile
  /\ ~Pre.isDirty
  /\ isDirty
  /\ Len(file.edges) = Len(Pre.file.edges) + 1

\* C15: with no document loaded, each of addNode, updateNode, removeNode,
\* addEdge, removeEdge and updateFile leaves the session as it was: no
\* document, no location, isDirty false.
C15_EmptySessionIgnoresMutations ==
  (mapCall.op \in Mutators /\ Pre.file = NoFile) =>
    /\ file = NoFile
    /\ filePath = NULL
    /\ isDirty = FALSE

\* C16: updateViewport(v) on a loaded document sets canvas.viewport to v and
\* leaves isDirty, nodes, edges, meta, canvas.background and filePath as
\* they were; with no document loaded it changes nothing.
C16_UpdateViewportOnlyMovesViewport ==
  mapCall.op = "updateViewport" =>
    IF Pre.file = NoFile
    THEN MapSnapshot = Pre
    ELSE /\ file # NoFile
         /\ file.canvas.viewport = mapCall.arg
         /\ SameContent(file, Pre.file)
         /\ isDirty = Pre.isDirty
         /\ filePath = Pre.filePath

\* C16 witness: the viewport of a clean document moved and the document is
\* still clean.
C16_Witness ==
  /\ mapCall.op = "updateViewport"
  /\ Pre.file # NoFile
  /\ Pre.file.canvas.viewport # mapCall.arg
  /\ file.canvas.viewport = mapCall.arg
  /\ Len(file.nodes) > 0
  /\ ~Pre.isDirty
  /\ ~isDirty

\* C17: markSaved on a loaded document clears isDirty and sets
\* meta.modifiedAt to the time of the call, leaving nodes, edges, canvas, the
\* other meta fields and filePath as they were; with no document loaded the
\* session is unchanged (no document, isDirty false).
C17_MarkSavedClearsFlagAndStamps ==
  mapCall.op = "markSaved" =>
    IF Pre.file = NoFile
    THEN MapSnapshot = Pre /\ file = NoFile /\ isDirty = FALSE
    ELSE /\ file # NoFile
         /\ isDirty = FALSE
         /\ file.meta.modifiedAt = toISOString(mapCall.arg)
         /\ file.meta.name = Pre.file.meta.name
         /\ file.meta.id = Pre.file.meta.id
         /\ file.meta.createdAt = Pre.file.meta.createdAt
         /\ DOMAIN file.meta = DOMAIN Pre.file.meta
         /\ file.version = Pre.file.version
         /\ file.canvas = Pre.file.canvas
         /\ file.nodes = Pre.file.nodes
         /\ file.edges = Pre.file.edges
         /\ filePath = Pre.filePath

\* C17 witness: a dirty document with nodes was marked saved at a time other
\* than its previous modification time.
C17_Witness ==
  /\ mapCall.op = "markSaved"
  /\ Pre.file # NoFile
  /\ Pre.isDirty
  /\ ~isDirty
  /\ Pre.file.meta.modifiedAt # toISOString(mapCall.arg)
  /\ Len(file.nodes) > 0

\* `new` is `old` restricted to the indices in `kept`, in the same order:
\* the entry at a kept index k sits at the count of kept indices up to k.
IsRestriction(new, old, kept) ==
  /\ Len(new) = Cardinality(kept)
  /\ \A k \in kept : new[Cardinality({j \in kept : j <= k})] = old[k]

\* C18: removeNode(id) on a loaded document leaves the edge list equal to
\* the previous one without the edges whose source or target is id, and the
\* node list equal to the previous one without the nodes with that id, both
\* in their previous relative order and with every kept entry unaltered.
C18_RemoveNodeDropsItsEdgesOnly ==
  (mapCall.op = "removeNode" /\ Pre.file # NoFile) =>
    LET old == Pre.file
        id == mapCall.arg
    IN  /\ file # NoFile
        /\ IsRestriction(file.edges, old.edges,
                         {k \in 1..Len(old.edges) :
                            /\ old.edges[k].sourceNodeId # id
                            /\ old.edges[k].targetNodeId # id})
        /\ IsRestriction(file.nodes, old.nodes,
                         {k \in 1..Len(old.nodes) : old.nodes[k].id # id})

\* C18 witness: of three edges the middle one, leaving the removed node, was
\* dropped with the node; the first and the third stayed.
C18_Witness ==
  /\ mapCall.op = "removeNode"
  /\ Pre.file # NoFile
  /\ Len(Pre.file.edges) = 3
  /\ Len(file.edges) = 2
  /\ file.edges[1] = Pre.file.edges[1]
  /\ file.edges[2] = Pre.file.edges[3]
  /\ Len(file.nodes) = Len(Pre.file.nodes) - 1

\* C19: after setTool(t), whatever the UI state and whatever t (the active
\* tool included), selectedTool is t and editingNodeId is empty, and
\* selectedNodeIds, selectedEdgeIds, contextMenu and modal are as before.
C19_SetToolClearsEditingOnly ==
  uiCall.op = "setTool" =>
    /\ selectedTool = uiCall.arg
    /\ editingNodeId = NoId
    /\ selectedNodeIds = uiCall.pre.selectedNodeIds
    /\ selectedEdgeIds = uiCall.pre.selectedEdgeIds
    /\ contextMenu = uiCall.pre.contextMenu
    /\ modal = uiCall.pre.modal

\* C19 witness: the active tool was set again while a node was being edited,
\* with nodes selected, a context menu and a modal open.
C19_Witness ==
  /\ uiCall.op = "setTool"
  /\ uiCall.arg = uiCall.pre.selectedTool
  /\ uiCall.arg # "select"
  /\ uiCall.pre.editingNodeId # NoId
  /\ editingNodeId = NoId
  /\ Cardinality(selectedNodeIds) = 2
  /\ contextMenu # NoContextMenu
  /\ modal # NoModal

\* The queue holds a toast with this id
InQueue(id) == \E k \in 1..Len(toasts) : toasts[k].id = id

\* The duration of the toast with this id in the queue
DurationOf(id) ==
  LET k == CHOOSE j \in 1..Len(toasts) : toasts[j].id = id
  IN  toasts[k].duration

\* C20: a toast leaves the queue only by dismiss of its id, by clear, or by
\* its own timer, and the last only if it was added with a duration above 0
\* (a toast of duration 0 is never removed by a timer); a toast is in the
\* queue right after its add; and a toast of duration above 0 eventually
\* leaves the queue, its timer firing if nothing removed it before.
C20_ToastLeavesByDismissClearOrOwnTimer ==
  /\ [][\A id \in ToastIds :
          (InQueue(id) /\ ~InQueue(id)') =>
            \/ toastCall'.op = "clear"
            \/ toastCall'.op = "dismiss" /\ toastCall'.arg = id
            \/ /\ toastCall'.op = "timer"
               /\ toastCall'.arg = id
               /\ DurationOf(id) > 0]_vars
  /\ [](toastCall.op = "add" => InQueue(toastCall.arg.id))
  /\ \A id \in ToastIds :
       (InQueue(id) /\ DurationOf(id) > 0) ~> ~InQueue(id)

\* C20 witness: the timer of the second toast removed it, while the first,
\* added with duration 0, is still in the queue.
C20_Witness ==
  /\ toastCall.op = "timer"
  /\ toastCall.arg = toastId(2)
  /\ Len(toastCall.pre) = 2
  /\ toastCall.pre[2].id = toastId(2)
  /\ toastCall.pre[2].duration > 0
  /\ Len(toasts) = 1
  /\ toasts[1].id = toastId(1)
  /\ toasts[1].duration = 0
  /\ timers = {}

\* C21: dismiss(id), called by the user or by the timer of id, leaves the
\* queue as it was without the toast of that id, every other toast where it
\* was; for an id not in the queue the queue is unchanged; and dismissing an
\* id a second time changes nothing more, whatever the queue.
C21_DismissRemovesOnlyItsToast ==
  /\ toastCall.op \in {"dismiss", "timer"} =>
       LET old == toastCall.pre
           id == toastCall.arg
       IN  /\ IsRestriction(toasts, old,
                            {k \in 1..Len(old) : old[k].id # id})
           /\ (\A k \in 1..Len(old) : old[k].id # id) => toasts = old
  /\ \A id \in ToastIds :
       /\ ~InQueue(id) => dismissState(toasts, id) = toasts
       /\ dismissState(dismissState(toasts, id), id) = dismissState(toasts, id)

\* C21 witness: the timer of the first toast fired after the user had
\* dismissed that toast; the two toasts added later are still queued.
C21_Witness ==
  /\ toastCall.op = "timer"
  /\ toastCall.arg = toastId(1)
  /\ Len(toastCall.pre) = 2
  /\ toasts = toastCall.pre
  /\ toasts[1].id = toastId(2)
  /\ toasts[2].id = toastId(3)

\* C22: recentFiles never has more than 10 entries nor a path twice, and it
\* is the list of all paths added so far, most recently added first, cut to
\* its first 10; re-adding a listed path moves it to the front and keeps the
\* length.
C22_RecentFilesNewestFirstAtMostTen ==
  /\ Len(recentFiles) <= 10
  /\ \A i, j \in 1..Len(recentFiles) :
       i # j => recentFiles[i] # recentFiles[j]
  /\ Len(recentFiles) = IF Len(recency) < 10 THEN Len(recency) ELSE 10
  /\ \A k \in 1..Len(recentFiles) : recentFiles[k] = recency[k]
  /\ recentCall.op = "addRecentFile" =>
       /\ recentFiles[1] = recentCall.arg
       /\ (\E k \in 1..Len(recentCall.pre) :
             recentCall.pre[k] = recentCall.arg) =>
            Len(recentFiles) = Len(recentCall.pre)

\* C22 witness: with ten paths listed and two more dropped from the list,
\* the oldest listed path was added again and moved to the front.
C22_Witness ==
  /\ recentCall.op = "addRecentFile"
  /\ Len(recentCall.pre) = 10
  /\ recentCall.pre[10] = recentCall.arg
  /\ recentFiles[1] = recentCall.arg
  /\ recentFiles[2] = recentCall.pre[1]
  /\ Len(recency) = 12

\* The rule of the claim C23 on a name, stated on its characters
ClaimedNameRule(name, vs, excludeId) ==
  /\ Len(name) \in 1..50
  /\ name[1] \notin Whitespace
  /\ name[Len(name)] \notin Whitespace
  /\ \A i \in 1..Len(name) :
       name[i] \in Letters \cup Digits \cup {" ", "_", "-"}
  /\ \A k \in 1..Len(vs) :
       vs[k].id # excludeId => toLowerCase(vs[k].name) # toLowerCase(name)

\* C23: validateVaultName(name, existingVaults, excludeId) returns valid
\* exactly when name has no whitespace at either end, has 1 to 50
\* characters, each a letter, a digit, a space, an underscore or a hyphen,
\* and no entry other than excludeId has the same name case-insensitively;
\* otherwise it returns invalid with a reason.
C23_ValidNamesAreExactlyTheRule ==
  pureCall.fn = "validateVaultName" =>
    /\ pureCall.result.valid <=>
         ClaimedNameRule(pureCall.name, pureCall.existingVaults,
                         pureCall.excludeId)
    /\ ~pureCall.result.valid => pureCall.result.error # NULL

\* Two paths with the same normal form, stated on the characters: without
\* their trailing separators they have the same length and, place by place,
\* both a separator or the same letter up to case.
SameNormalForm(p, q) ==
  LET end(s) == IF \E n \in 1..Len(s) : s[n] \notin Separators
                THEN CHOOSE n \in 1..Len(s) :
                       /\ s[n] \notin Separators
                       /\ \A m \in (n + 1)..Len(s) : s[m] \in Separators
                ELSE 0
  IN  /\ end(p) = end(q)
      /\ \A i \in 1..end(p) :
           \/ p[i] \in Separators /\ q[i] \in Separators
           \/ /\ p[i] \notin Separators
              /\ q[i] \notin Separators
              /\ LowerChar(p[i]) = LowerChar(q[i])

\* C24: isPathDuplicate(path, existingVaults, excludeId) is true exactly
\* when an entry with an id other than excludeId has a path of the same
\* normal form as path (trailing separators, separator character and letter
\* case not counting).
C24_PathDuplicateIffSameNormalForm ==
  pureCall.fn = "isPathDuplicate" =>
    ( pureCall.result <=>
        \E k \in 1..Len(pureCall.existingVaults) :
          /\ pureCall.existingVaults[k].id # pureCall.excludeId
          /\ SameNormalForm(pureCall.existingVaults[k].path, pureCall.path) )

\* C24 witness: a path that differs from the path of the first entry in
\* letter case, separator character and trailing separator is reported as
\* its duplicate while the second entry is the excluded one.
C24_Witness ==
  /\ pureCall.fn = "isPathDuplicate"
  /\ pureCall.result = TRUE
  /\ pureCall.excludeId = 2
  /\ Len(pureCall.existingVaults) = 2
  /\ \A k \in 1..2 : pureCall.existingVaults[k].path # pureCall.path
  /\ pureCall.path # <<>>
  /\ pureCall.path[Len(pureCall.path)] = "\\"

\* The Empty state of the session: no document, no location, not dirty
EmptySession == file = NoFile /\ filePath = NULL /\ isDirty = FALSE

\* C25: closeMap leaves the session Empty whatever it held before, and a
\* mutating operation that follows closeMap leaves it Empty.
C25_CloseMapEmptiesForGood ==
  [][ /\ mapCall'.op = "closeMap" => EmptySession'
      /\ (mapCall.op = "closeMap" /\ mapCall'.op \in Mutators) =>
           EmptySession' ]_vars

\* C26: under every interleaving of the vault operations, the in-memory
\* vault list and the persisted config have pairwise case-insensitively
\* distinct names and pairwise distinct normalised paths.
C26_InterleavingsKeepListsValid ==
  /\ VaultListValid(vaults)
  /\ VaultListValid(persisted)

\* C26 witness: two addVault calls with the same name up to case both read
\* the same list and both completed; the list holds one entry more than the
\* list they read.
C26_Witness ==
  /\ \A p \in Procs : frames[p].op = "addVault" /\ frames[p].pc = "done"
                      /\ frames[p].outcome = "ok"
  /\ frames[1].pre.vaults = frames[2].pre.vaults
  /\ toLowerCase(frames[1].name) = toLowerCase(frames[2].name)
  /\ Len(vaults) = Len(frames[1].pre.vaults) + 1
  /\ Len(persisted) = Len(vaults)

\* C27: when deleteVault removed the active vault and every entry of the
\* remaining non-empty list failed the accessibility check, the store has
\* no active vault, no files and the error initialize sets when all vaults
\* are inaccessible.
C27_DeleteVaultReportsAllInaccessible ==
  (Returned("deleteVault") /\ F.outcome = "ok" /\ F.active = F.id
     /\ AllFailed(F)) =>
    /\ activeVaultId = NoId
    /\ files = <<>>
    /\ error = "All configured vaults are inaccessible"

\* The operations that persist a new vault list
ListOps ==
  {"addVault", "renameVault", "updateVaultPath", "deleteVault",
   "moveVaultUp", "moveVaultDown"}

\* An operation of ListOps ended because the persistence call failed
SaveFailed == F.pc = "done" /\ F.op \in ListOps /\ F.outcome = "persist_error"

\* C28 as claimed: when the persistence call fails during one of the list
\* operations, the in-memory list is the list the operation asked to
\* persist while the persisted config is unchanged.
C28_FailedSaveLeavesListMutated ==
  SaveFailed =>
    /\ vaults = F.vaults
    /\ persisted = F.pre.persisted

\* C28 as amended: when the persistence call fails during one of the list
\* operations, the in-memory list, the active vault and the files are as
\* before the call, and the persisted config is unchanged.
C28_FailedSaveLeavesListUntouched ==
  SaveFailed =>
    /\ vaults = F.pre.vaults
    /\ activeVaultId = F.pre.activeVaultId
    /\ files = F.pre.files
    /\ persisted = F.pre.persisted

\* C28 witness: the save of addVault failed; the list it asked to persist
\* has one entry more than the list the store holds.
C28_Witness ==
  /\ SaveFailed
  /\ F.op = "addVault"
  /\ Len(F.vaults) = Len(vaults) + 1
  /\ persisted = vaults

\* C29: once initialize has completed, whenever no vault operation is in
\* flight and no persistence call has failed, the persisted vault list is
\* the in-memory vault list, entry by entry.
C29_QuiescentStoreMatchesDisk ==
  (Initialized /\ \A p \in Procs : Free(p)) => persisted = vaults

\* The step takes isDirty from true to false
ClearsDirty == isDirty /\ ~isDirty'

\* The step is a markSaved that stamps meta.modifiedAt with its time
MarkSavedStep ==
  /\ mapCall'.op = "markSaved"
  /\ file' # NoFile
  /\ file'.meta.modifiedAt = toISOString(mapCall'.arg)

\* C30 as claimed: every step that takes isDirty from true to false is a
\* markSaved step, which stamps meta.modifiedAt.
C30_OnlyMarkSavedClearsDirty == [][ClearsDirty => MarkSavedStep]_vars

\* C30 as amended: every step that takes isDirty from true to false is a
\* markSaved step, which stamps meta.modifiedAt, a loadMap step, which
\* installs the document and location handed to it, or a closeMap step,
\* which empties the session.
C30_OnlyMarkSavedLoadMapCloseMapClearDirty ==
  [][ ClearsDirty =>
        \/ MarkSavedStep
        \/ /\ mapCall'.op = "loadMap"
           /\ file' = mapCall'.arg.file
           /\ filePath' = mapCall'.arg.filePath
        \/ /\ mapCall'.op = "closeMap"
           /\ EmptySession' ]_vars

\* C30 witness: closeMap was called on a loaded, dirty document and the
\* dirty flag is cleared.
C30_Witness ==
  /\ mapCall.op = "closeMap"
  /\ Pre.file # NoFile
  /\ Pre.isDirty
  /\ ~isDirty

\* The ids of the nodes of a document
NodeIdsOf(f) == {f.nodes[k].id : k \in 1..Len(f.nodes)}

\* Every parentId and every childrenIds entry of every MindMap node of the
\* document names a node of the document
ReferencesResolve(f) ==
  \A k \in 1..Len(f.nodes) :
    f.nodes[k].type = "mindmap" =>
      /\ f.nodes[k].parentId = NoId \/ f.nodes[k].parentId \in NodeIdsOf(f)
      /\ \A c \in 1..Len(f.nodes[k].childrenIds) :
           f.nodes[k].childrenIds[c] \in NodeIdsOf(f)

\* C31: from a loaded document whose MindMap references all resolve, after
\* any sequence of addNode, updateNode, removeNode, addEdge and removeEdge
\* every parentId and childrenIds reference of a surviving MindMap node
\* names a node of the document.
C31_MindMapReferencesResolve == file # NoFile => ReferencesResolve(file)

\* C32: toggleNodeSelection(id) selects id when it was not selected and
\* deselects it when it was, changes the membership of no other id, leaves
\* selectedEdgeIds, selectedTool and editingNodeId as they were, and applied
\* once more with the same id gives the node selection back.
C32_ToggleFlipsOneMembership ==
  uiCall.op = "toggleNodeSelection" =>
    /\ (uiCall.arg \in selectedNodeIds) <=>
         (uiCall.arg \notin uiCall.pre.selectedNodeIds)
    /\ selectedNodeIds \ {uiCall.arg} =
         uiCall.pre.selectedNodeIds \ {uiCall.arg}
    /\ selectedEdgeIds = uiCall.pre.selectedEdgeIds
    /\ selectedTool = uiCall.pre.selectedTool
    /\ editingNodeId = uiCall.pre.editingNodeId
    /\ toggleNodeSelectionState(UiSnapshot, uiCall.arg).selectedNodeIds =
         uiCall.pre.selectedNodeIds

\* C32 witness: a selected node was toggled out of a selection of two while
\* a node was being edited.
C32_Witness ==
  /\ uiCall.op = "toggleNodeSelection"
  /\ Cardinality(uiCall.pre.selectedNodeIds) = 2
  /\ uiCall.arg \in uiCall.pre.selectedNodeIds
  /\ Cardinality(selectedNodeIds) = 1
  /\ editingNodeId # NoId

NumberOf(id) == id[2]

\* `new` lists toasts of `old` in the order they have in `old`
KeepsOrder(new, old) ==
  \A i, j \in 1..Len(new) :
    i < j => \E a, b \in 1..Len(old) :
               a < b /\ old[a] = new[i] /\ old[b] = new[j]

\* C34: the queue lists its toasts in the order they were added; add puts
\* the new toast after all the others and returns its id; dismiss and a
\* timer leave the remaining toasts in the order they had.
C34_QueueKeepsArrivalOrder ==
  /\ \A i, j \in 1..Len(toasts) :
       i < j => NumberOf(toasts[i].id) < NumberOf(toasts[j].id)
  /\ toastCall.op = "add" =>
       /\ toasts = Append(toastCall.pre, toastCall.arg)
       /\ toastCall.arg.id = toastId(idCounter)
  /\ toastCall.op \in {"dismiss", "timer"} => KeepsOrder(toasts, toastCall.pre)

\* C34 witness: of three toasts the second was dismissed; the first and the
\* third remain, in that order.
C34_Witness ==
  /\ toastCall.op = "dismiss"
  /\ toastCall.arg = toastId(2)
  /\ Len(toastCall.pre) = 3
  /\ Len(toasts) = 2
  /\ toasts[1].id = toastId(1)
  /\ toasts[2].id = toastId(3)

\* C35: clear leaves the queue empty; a timer that fires for a toast no
\* longer in the queue leaves the queue as it is; and no id is handed out
\* twice: the ids in the queue differ pairwise, and the id of an added toast
\* is newer than every id in the queue and every id a timer was set for.
C35_StaleTimersRemoveNothing ==
  /\ toastCall.op = "clear" => toasts = <<>>
  /\ (toastCall.op = "timer"
        /\ \A k \in 1..Len(toastCall.pre) :
             toastCall.pre[k].id # toastCall.arg) =>
       toasts = toastCall.pre
  /\ \A i, j \in 1..Len(toasts) : i # j => toasts[i].id # toasts[j].id
  /\ \A k \in 1..Len(toasts) : NumberOf(toasts[k].id) <= idCounter
  /\ \A id \in timers : NumberOf(id) <= idCounter
  /\ toastCall.op = "add" =>
       /\ NumberOf(toastCall.arg.id) = idCounter
       /\ \A k \in 1..Len(toastCall.pre) :
            NumberOf(toastCall.pre[k].id) < idCounter
       /\ \A id \in timers \ {toastCall.arg.id} : NumberOf(id) < idCounter

\* C35 witness: the timer of the first toast fired when that toast was no
\* longer queued; the third toast, added with a timer of its own that is
\* still pending, stays in the queue.
C35_Witness ==
  /\ toastCall.op = "timer"
  /\ toastCall.arg = toastId(1)
  /\ toasts = toastCall.pre
  /\ Len(toasts) = 1
  /\ toasts[1].id = toastId(3)
  /\ toastId(3) \in timers

\* C36: under every interleaving of the vault operations, activeVaultId is
\* null or the id of an entry of the in-memory vault list.
C36_ActiveVaultIsListed == activeVaultId = NoId \/ activeVaultId \in IdsOf(vaults)

\* C37: under every interleaving of the vault operations, files is empty
\* whenever activeVaultId is null.
C37_NoActiveVaultNoFiles == activeVaultId = NoId => files = <<>>

\* C38: when a save of the editor has just completed (the document was
\* written and markSaved was called) and isDirty is false, the nodes and
\* edges written to the file are those of the in-memory document.
C38_SavedDocumentMatchesMemory ==
  (saving.pc = "done" /\ mapCall.op = "markSaved" /\ ~isDirty
     /\ file # NoFile) =>
    /\ written.map.nodes = file.nodes
    /\ written.map.edges = file.edges

\* C39: once initialize has completed and no vault operation is in flight,
\* the vault returned by an addVault call that succeeded is in the in-memory
\* vault list and in the persisted config, unless a deleteVault was called
\* for its id.
C39_AddedVaultsSurvive ==
  (Initialized /\ \A p \in Procs : Free(p)) =>
    \A p \in Procs :
      ( /\ frames[p].op = "addVault"
        /\ frames[p].outcome = "ok"
        /\ \A q \in Procs :
             ~(frames[q].op = "deleteVault" /\ frames[q].id = frames[p].ret.id) ) =>
        /\ frames[p].ret.id \in IdsOf(vaults)
        /\ frames[p].ret.id \in IdsOf(persisted)

\* C40: in every state of the document session the document and its
\* location are both empty or both present, and isDirty is false whenever
\* the document is empty.
C40_DocumentAndLocationTogether ==
  /\ file = NoFile <=> filePath = NULL
  /\ file = NoFile => ~isDirty

====
